---- MODULE Spec2Model ----
(***************************************************************************)
(* A model of EEGformer (src/models.py): the convolutional embedder ODCM,  *)
(* the three attention modules RTM, STM and TTM, the CNNdecoder, the       *)
(* truncated-normal initialiser and the L1 loss term.                      *)
(*                                                                         *)
(* Tensors are modelled at two levels.  The pipeline specification (Spec)  *)
(* carries tensor SHAPES (sequences of integers) through construction and  *)
(* forward, with every shape rule of the tensor operations the code calls  *)
(* (a violated rule is the value Err, the exception the call raises).      *)
(* The smaller specifications carry tensor VALUES for one step each: which *)
(* input channels an ODCM output depends on, the accumulation loop, the    *)
(* float32 segment average, trunc_normal and the purity of forward.        *)
(***************************************************************************)
EXTENDS Integers, Sequences, FiniteSets, TLC

\* ---------------------------------------------------------------- bounds
MaxC == 2        \* input_channels ranges over 1..MaxC
MaxT == 6        \* length of the example signal ranges over 1..MaxT
MaxK == 2        \* kernel_size ranges over 1..MaxK
MaxM == 2        \* num_submatrices ranges over 1..MaxM
MaxBlocks == 2   \* num_blocks ranges over 1..MaxBlocks
MaxHeads == 2    \* each num_heads_* ranges over 1..MaxHeads
MaxCF == 1       \* CF_second ranges over 1..MaxCF
MaxCls == 2      \* num_cls ranges over 1..MaxCls

\* ------------------------------------------------------ program constants
ncf == 120       \* self.ncf: depth-wise filters per channel
mlp_ratio == 4   \* hidden_features = int(M_size1 * 4)

\* ------------------------------------------------------------ tensor shapes
\* The exception a tensor operation raises on incompatible shapes.
Err == <<-1>>
IsErr(s) == s = Err

RECURSIVE Numel(_)
Numel(s) == IF s = <<>> THEN 1 ELSE Head(s) * Numel(Tail(s))

\* Tensor.transpose(d0, d1), dimensions counted from 0 as in the source.
Transpose(s, d0, d1) ==
  IF IsErr(s) THEN Err
  ELSE [k \in 1..Len(s) |->
          IF k = d0 + 1 THEN s[d1 + 1] ELSE IF k = d1 + 1 THEN s[d0 + 1] ELSE s[k]]

\* torch.zeros(*dims): a negative dimension raises.
Zeros(dims) == IF \E k \in 1..Len(dims) : dims[k] < 0 THEN Err ELSE dims

\* torch.reshape / Tensor.reshape: the element count must be kept.
Reshape(s, new) ==
  IF IsErr(s) \/ IsErr(new) THEN Err
  ELSE IF Numel(s) = Numel(new) THEN new ELSE Err

\* Broadcasting of two shapes of the same rank (torch.add, +).
Broadcast(s, t) ==
  IF IsErr(s) \/ IsErr(t) \/ Len(s) # Len(t) THEN Err
  ELSE IF \A k \in 1..Len(s) : s[k] = t[k] \/ s[k] = 1 \/ t[k] = 1
       THEN [k \in 1..Len(s) |-> IF s[k] = 1 THEN t[k] ELSE s[k]]
       ELSE Err

\* dst[a] = src: src must broadcast to the shape of the slot.
AssignTo(slot, src) ==
  IF IsErr(slot) \/ IsErr(src) THEN Err
  ELSE IF Broadcast(slot, src) = slot THEN slot ELSE Err

\* torch.cat((s, t), dim): every other dimension must agree.
Cat(s, t, dim) ==
  IF IsErr(s) \/ IsErr(t) \/ Len(s) # Len(t) THEN Err
  ELSE IF \A k \in 1..Len(s) : k = dim + 1 \/ s[k] = t[k]
       THEN [k \in 1..Len(s) |-> IF k = dim + 1 THEN s[k] + t[k] ELSE s[k]]
       ELSE Err

\* nn.Conv1d (stride 1, padding 'valid') on an unbatched [Cin, L] or a
\* batched [N, Cin, L] input; cv is [in, out, k, groups].
Conv1d(cv, s) ==
  IF IsErr(s) THEN Err
  ELSE IF Len(s) = 2 /\ s[1] = cv.in /\ s[2] >= cv.k
       THEN <<cv.out, s[2] - (cv.k - 1)>>
  ELSE IF Len(s) = 3 /\ s[2] = cv.in /\ s[3] >= cv.k
       THEN <<s[1], cv.out, s[3] - (cv.k - 1)>>
  ELSE Err

\* nn.Linear with weight [out, in] applied to the last axis.
Linear(w, s) ==
  IF IsErr(s) THEN Err
  ELSE IF s[Len(s)] = w[2] THEN [k \in 1..Len(s) |-> IF k = Len(s) THEN w[1] ELSE s[k]]
  ELSE Err

\* nn.LayerNorm(d) normalises a last axis of size d.
LayerNorm(d, s) ==
  IF IsErr(s) THEN Err ELSE IF s[Len(s)] = d THEN s ELSE Err

\* Mlp.forward: fc1, GELU, dropout, fc2, dropout.
Mlp_forward(mlp, s) == Linear(mlp.fc2, Linear(mlp.fc1, s))

\* Mlp.__init__ with hidden_features = 4 * in_features.
Mlp_init(d) == [fc1 |-> <<mlp_ratio * d, d>>, fc2 |-> <<d, mlp_ratio * d>>]

\* ------------------------------------------------------------------- ODCM
ODCM_init(input_channels, kernel_size) ==
  [ cvf1 |-> [in |-> input_channels, out |-> input_channels, k |-> kernel_size, groups |-> input_channels],
    cvf2 |-> [in |-> input_channels, out |-> input_channels, k |-> kernel_size, groups |-> input_channels],
    cvf3 |-> [in |-> input_channels, out |-> ncf * input_channels, k |-> kernel_size, groups |-> input_channels] ]

ODCM_forward(m, x) ==
  LET y == Conv1d(m.cvf3, Conv1d(m.cvf2, Conv1d(m.cvf1, x)))
  IN IF IsErr(y) THEN Err ELSE Reshape(y, <<y[1] \div ncf, ncf, y[2]>>)

\* ----------------------------------------------------------------- einsum
\* torch.einsum: two sizes under one subscript must match or be 1.
Same(p, q) == p = q \/ p = 1 \/ q = 1

\* 'lm,jmi -> ijl'
Einsum_lm_jmi(w, x) ==
  IF IsErr(w) \/ IsErr(x) \/ Len(x) # 3 THEN Err
  ELSE IF Same(w[2], x[2]) THEN <<x[3], x[1], w[1]>> ELSE Err

\* 'lm,im -> il'
Einsum_lm_im(w, x) ==
  IF IsErr(w) \/ IsErr(x) \/ Len(x) # 2 THEN Err
  ELSE IF Same(w[2], x[2]) THEN <<x[1], w[1]>> ELSE Err

\* 'xhdm,ijm -> xijhd' and 'xhdm,im -> xihd': w is Wqkv[a], z the token sequence.
Einsum_xhdm_z(w, z) ==
  IF IsErr(w) \/ IsErr(z) THEN Err
  ELSE IF Same(w[4], z[Len(z)])
       THEN <<w[1]>> \o SubSeq(z, 1, Len(z) - 1) \o <<w[2], w[3]>>
       ELSE Err

\* 'nm,ijm -> ijn' and 'nm,im -> in': w is Wo[a].
Einsum_nm_z(w, z) ==
  IF IsErr(w) \/ IsErr(z) THEN Err
  ELSE IF Same(w[2], z[Len(z)])
       THEN SubSeq(z, 1, Len(z) - 1) \o <<w[1]>>
       ELSE Err

\* One transformer block on the token sequence z (the body of the loop over a):
\* seq is the shape of one block's slice of the buffers without the head axes
\* (<<S, L+1>> in RTM and STM, <<M+1>> in TTM), stop the bound of the
\* accumulation loop `for subj in range(1, stop)` and axis the position of the
\* sequence axis in seq.
AttnBlock(m, seq, stop, axis, z) ==
  LET qkv == AssignTo(<<3>> \o seq \o <<m.hA, m.Dh>>,
                      Einsum_xhdm_z(Tail(m.Wqkv), LayerNorm(m.lnorm, z)))
      \* imv[a, :, subj] for subj in range(1, stop) must index inside the axis
      imv == IF IsErr(qkv) THEN Err
             ELSE IF stop - 1 >= seq[axis] THEN Err
             ELSE <<m.tK>> \o seq \o <<m.hA, m.Dh>>
      merged == Reshape(imv, <<m.tK>> \o seq \o <<m.M_size1>>)
      z1 == IF IsErr(merged) THEN Err
            ELSE Broadcast(Einsum_nm_z(Tail(m.Wo), Tail(merged)), z)
  IN Broadcast(Mlp_forward(m.mlp, LayerNorm(m.lnormz, z1)), z1)

\* The test before each "ERROR n" print: the head count must divide the
\* feature dimension and leave a nonzero quotient.
Head_check(M_size1, hA) == M_size1 % hA # 0 \/ M_size1 \div hA = 0

\* ------------------------------------------------------------------- RTM
\* input -> the example tensor's shape; printed collects the ERROR lines.
RTM_init(input, num_blocks, num_heads) ==
  LET inputshape == Transpose(Transpose(input, 0, 1), 1, 2)
      M_size1 == inputshape[2]
      Dh == M_size1 \div num_heads
  IN [ inputshape |-> inputshape, M_size1 |-> M_size1,
       tK |-> num_blocks, hA |-> num_heads, Dh |-> Dh,
       printed |-> IF Head_check(M_size1, num_heads) THEN {"ERROR 1"} ELSE {},
       weight |-> <<M_size1, inputshape[2]>>,
       bias |-> <<inputshape[3], inputshape[1] + 1, M_size1>>,
       cls |-> <<inputshape[3], 1, M_size1>>,
       Wqkv |-> <<num_blocks, 3, num_heads, Dh, M_size1>>,
       Wo |-> <<num_blocks, M_size1, M_size1>>,
       lnorm |-> M_size1, lnormz |-> M_size1, mlp |-> Mlp_init(M_size1) ]

\* Lines 114-119: the transposed input and the assembled token sequence.
RTM_transpose(x) == Transpose(Transpose(x, 0, 1), 1, 2)
RTM_assemble(m, x) ==
  Broadcast(Cat(m.cls, Einsum_lm_jmi(m.weight, x), 1), m.bias)

\* Lines 127-143: block a.
\* Line 136: for subj in range(1, self.inputshape[0])
RTM_accum_stop(m, x) == m.inputshape[1]
RTM_block(m, x, z) == AttnBlock(m, <<x[3], x[1] + 1>>, RTM_accum_stop(m, x), 2, z)

\* ------------------------------------------------------------------- STM
STM_init(input, num_blocks, num_heads) ==
  LET inputshape == Transpose(input, 1, 2)
      M_size1 == inputshape[2]
      Dh == M_size1 \div num_heads
  IN [ inputshape |-> inputshape, M_size1 |-> M_size1,
       tK |-> num_blocks, hA |-> num_heads, Dh |-> Dh,
       printed |-> IF Head_check(M_size1, num_heads) THEN {"ERROR 2"} ELSE {},
       weight |-> <<M_size1, inputshape[2]>>,
       bias |-> <<inputshape[3], inputshape[1] + 1, M_size1>>,
       cls |-> <<inputshape[3], 1, M_size1>>,
       Wqkv |-> <<num_blocks, 3, num_heads, Dh, M_size1>>,
       Wo |-> <<num_blocks, M_size1, M_size1>>,
       lnorm |-> M_size1, lnormz |-> M_size1, mlp |-> Mlp_init(M_size1) ]

STM_transpose(x) == Transpose(x, 1, 2)
STM_assemble(m, x) ==
  Broadcast(Cat(m.cls, Einsum_lm_jmi(m.weight, x), 1), m.bias)
\* Line 196: for subj in range(1, x.shape[0])
STM_accum_stop(m, x) == x[1]
STM_block(m, x, z) == AttnBlock(m, <<x[3], x[1] + 1>>, STM_accum_stop(m, x), 2, z)

\* ------------------------------------------------------------------- TTM
\* The test before the "ERROR 3" print (line 216).
Seg_check_mut(n, avgf) == n \div avgf = 0
Seg_check(n, avgf) == n % avgf # 0 \/ n \div avgf = 0

\* self.seg = input.shape[0] / avgf (line 214) is a double; the record keeps
\* its two operands (segNum, avgf) and SegBound redoes the double arithmetic.
TTM_init(input, num_submatrices, num_blocks, num_heads) ==
  LET inp == Transpose(input, 0, 2)
      M_size1 == inp[2] * inp[3]
      Dh == M_size1 \div num_heads
  IN [ input |-> inp, avgf |-> num_submatrices, segNum |-> inp[1],
       M_size1 |-> M_size1, tK |-> num_blocks, hA |-> num_heads, Dh |-> Dh,
       printed |->
         (IF Seg_check(inp[1], num_submatrices) THEN {"ERROR 3"} ELSE {})
         \cup (IF Head_check(M_size1, num_heads) THEN {"ERROR 4"} ELSE {}),
       weight |-> <<M_size1, inp[2] * inp[3]>>,
       bias |-> <<num_submatrices + 1, M_size1>>,
       cls |-> <<1, M_size1>>,
       Wqkv |-> <<num_blocks, 3, num_heads, Dh, M_size1>>,
       Wo |-> <<num_blocks, M_size1, M_size1>>,
       lnorm |-> M_size1, lnormz |-> M_size1, mlp |-> Mlp_init(M_size1),
       lnorm_extra |-> M_size1 ]

\* int(i * self.seg), in the double arithmetic Python performs (lines 214,
\* 246).  With n = segNum and M = avgf, seg is the 53-bit rounding of n / M:
\* seg = (n * 2^t - r) / (M * 2^t) with t = 52 - floor(log2(n / M)) and r the
\* remainder of n * 2^t by M taken to the nearest multiple (t exceeds the power
\* of two in M, so no tie occurs).  The product i * seg is rounded once more.
\* Its truncation differs from the floor of i * n / M only where i * n / M is
\* an integer k, seg was rounded down (0 < 2r < M) and the deficit i * r /
\* (M * 2^t) exceeds half the spacing 2^(p - 52) of the doubles below k
\* (2^p < k <= 2^(p+1)); a tie rounds to k, whose mantissa is even.  The
\* truncation is then k - 1.
SegBound(m, i) ==
  LET n == m.segNum
      M == m.avgf
      k == (i * n) \div M
      RECURSIVE Pow2(_), PowMod2(_), ExpUp(_), ExpDown(_), Below(_)
      Pow2(d) == IF d = 0 THEN 1 ELSE 2 * Pow2(d - 1)
      PowMod2(t) == IF t = 0 THEN 1 % M ELSE (2 * PowMod2(t - 1)) % M
      \* n >= M: the largest e with M * 2^e <= n
      ExpUp(e) == IF M * Pow2(e + 1) <= n THEN ExpUp(e + 1) ELSE e
      \* n < M: the smallest d with n * 2^d >= M
      ExpDown(d) == IF n * Pow2(d) < M THEN ExpDown(d + 1) ELSE d
      \* the largest p with 2^p < k, for k >= 2
      Below(p) == IF Pow2(p + 1) < k THEN Below(p + 1) ELSE p
      es == IF n >= M THEN ExpUp(0) ELSE 0 - ExpDown(1)
      r == ((n % M) * PowMod2(52 - es)) % M
      p == IF k <= 1 THEN -1 ELSE Below(0)
      d == p - es - 1
      short == IF d >= 0 THEN i * r > M * Pow2(d)
                         ELSE i * r * Pow2(0 - d) > M
  IN IF i = 0 \/ n = 0 \/ (i * n) % M # 0 \/ n % M = 0 THEN k
     ELSE IF 0 < 2 * r /\ 2 * r < M /\ short THEN k - 1
     ELSE k

TTM_transpose(x) == Transpose(x, 0, 2)

\* Lines 244-250: the segment sums read input[j] for j < int(avgf * seg), the
\* bound Python computes in doubles (one below segNum where SegBound says so).
TTM_average(m, x) ==
  IF IsErr(x) THEN Err
  ELSE IF SegBound(m, m.avgf) > x[1] THEN Err
  ELSE Reshape(<<m.avgf, x[2], x[3]>>, <<m.avgf, x[2] * x[3]>>)

\* Lines 252-255.
TTM_assemble(m, altx) ==
  Broadcast(Cat(m.cls, Einsum_lm_im(m.weight, altx), 0), m.bias)

\* Line 270: for subj in range(1, self.avgf)
TTM_accum_stop(m) == m.avgf
TTM_block(m, z) == AttnBlock(m, <<m.avgf + 1>>, TTM_accum_stop(m), 1, z)

\* Lines 279-280.
TTM_finish(m, x, z) ==
  Reshape(LayerNorm(m.lnorm_extra, z), <<m.avgf + 1, x[2], x[3]>>)

\* ------------------------------------------------------------- CNNdecoder
CNNdecoder_init(input, num_cls, CF_second) ==
  LET inp == Transpose(Transpose(input, 0, 1), 1, 2)
      s == inp[1]
      c == inp[2]
      mm == inp[3]
  IN [ cvd1 |-> [in |-> c, out |-> 1, k |-> 1, groups |-> 1],
       cvd2 |-> [in |-> s, out |-> CF_second, k |-> 1, groups |-> 1],
       cvd3 |-> [in |-> mm, out |-> mm \div 2, k |-> 1, groups |-> 1],
       fc |-> <<num_cls, (mm \div 2) * CF_second>> ]

CNNdecoder_forward(m, x0) ==
  LET x1 == Conv1d(m.cvd1, Transpose(Transpose(x0, 0, 1), 1, 2))
      x2 == IF IsErr(x1) THEN Err ELSE <<x1[1], x1[3]>>
      x3 == Conv1d(m.cvd3, Transpose(Conv1d(m.cvd2, x2), 0, 1))
  IN IF IsErr(x3) THEN Err
     ELSE Linear(m.fc, Reshape(x3, <<1, x3[1] * x3[2]>>))

\* -------------------------------------------------------------- EEGformer
\* c is the argument list of EEGformer.__init__; c.T is input.shape[0].
\* Lines 323-326: the example tensors the components are built from.
OutShape1(c) == Zeros(<<c.input_channels, ncf, c.T - 3 * (c.kernel_size - 1)>>)
OutShape2(o1) == IF IsErr(o1) THEN Err ELSE Zeros(<<o1[1], o1[2] + 1, o1[3]>>)
OutShape3_mut(o2) == IF IsErr(o2) THEN Err ELSE Zeros(<<o2[2], o2[1], o2[3]>>)
OutShape3(o2) == IF IsErr(o2) THEN Err ELSE Zeros(<<o2[2], o2[1] + 1, o2[3]>>)
OutShape4(c, o3) == IF IsErr(o3) THEN Err ELSE Zeros(<<c.num_submatrices + 1, o3[2], o3[1]>>)

EEGformer_init(c) ==
  LET outshape1 == OutShape1(c)
      outshape2 == OutShape2(outshape1)
      outshape3 == OutShape3(outshape2)
      outshape4 == OutShape4(c, outshape3)
  IN IF IsErr(outshape1) THEN [raised |-> TRUE]
     ELSE [ raised |-> FALSE, num_cls |-> c.num_cls, tK |-> c.num_blocks,
            outshape1 |-> outshape1, outshape2 |-> outshape2,
            outshape3 |-> outshape3, outshape4 |-> outshape4,
            odcm |-> ODCM_init(c.input_channels, c.kernel_size),
            rtm |-> RTM_init(outshape1, c.num_blocks, c.num_heads_RTM),
            stm |-> STM_init(outshape2, c.num_blocks, c.num_heads_STM),
            ttm |-> TTM_init(outshape3, c.num_submatrices, c.num_blocks, c.num_heads_TTM),
            cnndecoder |-> CNNdecoder_init(outshape4, c.num_cls, c.CF_second) ]

\* torch.softmax(x, dim=1) keeps the shape.
Softmax(s) == IF IsErr(s) \/ Len(s) < 2 THEN Err ELSE s

\* for a in range(n): the indices the loop will visit, in order.
range_mut(n) == [i \in 1..(n - 1) |-> i]
range(n) == [i \in 1..n |-> i - 1]

\* =========================================================================
\* The pipeline: construction, then forward calls, one step per stage and
\* per attention block.
\* =========================================================================
VARIABLES
  cfg,      \* the arguments EEGformer was constructed with
  mdl,      \* the constructed model: parameter shapes of every component
  stdout,   \* the ERROR lines printed during construction
  pc,       \* where the caller / the running forward call is
  xin,      \* shape of the tensor passed to forward
  x,        \* the tensor flowing between stages (its shape)
  z,        \* savespace: the token sequence inside an attention module
  iter,     \* the block indices `for a in range(self.tK)` has yet to visit
  trace,    \* history: the stages and blocks the running call has started
  out       \* what the last forward call returned

pipeVars == <<cfg, mdl, stdout, pc, xin, x, z, iter, trace, out>>

NoCfg == [input_channels |-> 0]
NoModel == [raised |-> TRUE]
None == <<>>

\* The end-to-end scenario of the specification (section 8).
Scenario ==
  [ input_channels |-> 19, T |-> 256, kernel_size |-> 10, num_blocks |-> 2,
    num_heads_RTM |-> 1, num_heads_STM |-> 1, num_heads_TTM |-> 10,
    num_submatrices |-> 4, CF_second |-> 2, num_cls |-> 2 ]

\* Configurations: every combination within the bounds whose example signal
\* is longer than the three convolutions consume, and the scenario.
Configs ==
  { c \in [ input_channels : 1..MaxC, T : 1..MaxT, kernel_size : 1..MaxK,
            num_blocks : 1..MaxBlocks, num_heads_RTM : 1..MaxHeads,
            num_heads_STM : 1..MaxHeads, num_heads_TTM : 1..MaxHeads,
            num_submatrices : 1..MaxM, CF_second : 1..MaxCF, num_cls : 1..MaxCls ] :
      c.T > 3 * (c.kernel_size - 1) }
  \cup {Scenario}

\* Signals passed to forward, [time, channels]: the configured length, one
\* sample longer, and the longest signal the embedder cannot process.
Inputs(c) ==
  { <<t, c.input_channels>> : t \in {c.T, c.T + 1, 3 * (c.kernel_size - 1)} }

PipeInit ==
  /\ cfg = NoCfg /\ mdl = NoModel /\ stdout = {} /\ pc = "new"
  /\ xin = None /\ x = None /\ z = None /\ iter = <<>> /\ trace = <<>> /\ out = None

\* model = EEGformer(...)
Construct ==
  /\ pc = "new"
  /\ \E c \in Configs :
       LET m == EEGformer_init(c) IN
       /\ cfg' = c
       /\ IF m.raised
          THEN /\ mdl' = NoModel /\ stdout' = {} /\ pc' = "ctor_raised"
          ELSE /\ mdl' = m
               /\ stdout' = m.rtm.printed \cup m.stm.printed \cup m.ttm.printed
               /\ pc' = "ready"
  /\ UNCHANGED <<xin, x, z, iter, trace, out>>

\* model.forward(input)
Forward ==
  /\ pc = "ready"
  /\ \E inp \in Inputs(cfg) : xin' = inp
  /\ pc' = "odcm" /\ x' = None /\ z' = None /\ iter' = <<>> /\ trace' = <<>> /\ out' = None
  /\ UNCHANGED <<cfg, mdl, stdout>>

\* One stage or block has run and produced r: go on to `next`, or raise.
Ran(stage, idx, r, next) ==
  /\ trace' = Append(trace, <<stage, idx>>)
  /\ pc' = IF IsErr(r) THEN "raised" ELSE next

\* x = self.odcm(x.transpose(0, 1))
Step_odcm ==
  /\ pc = "odcm"
  /\ LET r == ODCM_forward(mdl.odcm, Transpose(xin, 0, 1)) IN
       /\ x' = r /\ Ran("odcm", -1, r, "rtm")
  /\ UNCHANGED <<cfg, mdl, stdout, xin, z, iter, out>>

\* x = self.rtm(x): lines 114-123
RTM_enter ==
  /\ pc = "rtm"
  /\ LET xt == RTM_transpose(x)
         r == RTM_assemble(mdl.rtm, xt) IN
       /\ x' = xt /\ z' = r /\ iter' = range(mdl.rtm.tK)
       /\ Ran("rtm", -1, r, "rtm_loop")
  /\ UNCHANGED <<cfg, mdl, stdout, xin, out>>

\* lines 126-143, one iteration
RTM_loop ==
  /\ pc = "rtm_loop" /\ iter # <<>>
  /\ LET r == RTM_block(mdl.rtm, x, z) IN
       /\ z' = r /\ iter' = Tail(iter)
       /\ Ran("rtm", Head(iter), r, "rtm_loop")
  /\ UNCHANGED <<cfg, mdl, stdout, xin, x, out>>

\* line 145
RTM_return ==
  /\ pc = "rtm_loop" /\ iter = <<>>
  /\ x' = z /\ z' = None /\ pc' = "stm"
  /\ UNCHANGED <<cfg, mdl, stdout, xin, iter, trace, out>>

\* x = self.stm(x)
STM_enter ==
  /\ pc = "stm"
  /\ LET xt == STM_transpose(x)
         r == STM_assemble(mdl.stm, xt) IN
       /\ x' = xt /\ z' = r /\ iter' = range(mdl.stm.tK)
       /\ Ran("stm", -1, r, "stm_loop")
  /\ UNCHANGED <<cfg, mdl, stdout, xin, out>>

STM_loop ==
  /\ pc = "stm_loop" /\ iter # <<>>
  /\ LET r == STM_block(mdl.stm, x, z) IN
       /\ z' = r /\ iter' = Tail(iter)
       /\ Ran("stm", Head(iter), r, "stm_loop")
  /\ UNCHANGED <<cfg, mdl, stdout, xin, x, out>>

STM_return ==
  /\ pc = "stm_loop" /\ iter = <<>>
  /\ x' = z /\ z' = None /\ pc' = "ttm"
  /\ UNCHANGED <<cfg, mdl, stdout, xin, iter, trace, out>>

\* x = self.ttm(x): lines 243-259
TTM_enter ==
  /\ pc = "ttm"
  /\ LET xt == TTM_transpose(x)
         r == TTM_assemble(mdl.ttm, TTM_average(mdl.ttm, xt)) IN
       /\ x' = xt /\ z' = r /\ iter' = range(mdl.ttm.tK)
       /\ Ran("ttm", -1, r, "ttm_loop")
  /\ UNCHANGED <<cfg, mdl, stdout, xin, out>>

TTM_loop ==
  /\ pc = "ttm_loop" /\ iter # <<>>
  /\ LET r == TTM_block(mdl.ttm, z) IN
       /\ z' = r /\ iter' = Tail(iter)
       /\ Ran("ttm", Head(iter), r, "ttm_loop")
  /\ UNCHANGED <<cfg, mdl, stdout, xin, x, out>>

\* lines 279-280
TTM_return ==
  /\ pc = "ttm_loop" /\ iter = <<>>
  /\ LET r == TTM_finish(mdl.ttm, x, z) IN
       /\ x' = r /\ z' = None
       /\ pc' = IF IsErr(r) THEN "raised" ELSE "cnndecoder"
  /\ UNCHANGED <<cfg, mdl, stdout, xin, iter, trace, out>>

\* x = self.cnndecoder(x)
Step_cnndecoder ==
  /\ pc = "cnndecoder"
  /\ LET r == CNNdecoder_forward(mdl.cnndecoder, x) IN
       /\ x' = r /\ Ran("cnndecoder", -1, r, "softmax")
  /\ UNCHANGED <<cfg, mdl, stdout, xin, z, iter, out>>

\* return torch.softmax(x, dim=1)
Step_softmax ==
  /\ pc = "softmax"
  /\ LET r == Softmax(x) IN
       /\ out' = r /\ Ran("softmax", -1, r, "done")
  /\ UNCHANGED <<cfg, mdl, stdout, xin, x, z, iter>>

\* The call is over (returned, or raised to the caller); its locals are gone.
Return ==
  /\ pc \in {"done", "raised"}
  /\ pc' = "ready" /\ x' = None /\ z' = None /\ iter' = <<>>
  /\ UNCHANGED <<cfg, mdl, stdout, xin, trace, out>>

PipeNext ==
  \/ Construct \/ Forward \/ Step_odcm
  \/ RTM_enter \/ RTM_loop \/ RTM_return
  \/ STM_enter \/ STM_loop \/ STM_return
  \/ TTM_enter \/ TTM_loop \/ TTM_return
  \/ Step_cnndecoder \/ Step_softmax \/ Return

\* =========================================================================
\* ODCM.forward on values.  A tensor is [shape, data]: data is the row-major
\* storage, indexed from 0, and each element is the set of <<channel, time>>
\* positions of the input signal it is computed from.
\* =========================================================================
VARIABLES
  od_m,     \* the ODCM module under call
  od_pc,    \* position inside ODCM.forward
  od_sig,   \* shape [C, T] of the signal passed in
  od_x      \* the local x of ODCM.forward

odVars == <<od_m, od_pc, od_sig, od_x>>

ErrT == [shape |-> Err, data |-> <<>>]

\* The input signal: every element is its own source.
Signal(C, T) ==
  [shape |-> <<C, T>>, data |-> [i \in 0..(C * T - 1) |-> {<<i \div T, i % T>>}]]

\* Grouped nn.Conv1d on an unbatched [Cin, L] tensor: output channel o belongs
\* to group o div (out/groups) and reads the in/groups input channels of that
\* group, at the k time steps t..t+k-1.
Conv1dV_mut(cv, X) ==
  IF IsErr(Conv1d(cv, X.shape)) THEN ErrT
  ELSE LET L == X.shape[2]
           Lo == L - (cv.k - 1)
           ipg == cv.in \div cv.groups
       IN [ shape |-> <<cv.out, Lo>>,
            data |-> [i \in 0..(cv.out * Lo - 1) |->
                       LET g == (i \div Lo) % cv.groups
                       IN UNION { X.data[ic * L + (i % Lo) + j] :
                                    ic \in (g * ipg)..((g + 1) * ipg - 1),
                                    j \in 0..(cv.k - 1) }] ]
Conv1dV(cv, X) ==
  IF IsErr(Conv1d(cv, X.shape)) THEN ErrT
  ELSE LET L == X.shape[2]
           Lo == L - (cv.k - 1)
           opg == cv.out \div cv.groups
           ipg == cv.in \div cv.groups
       IN [ shape |-> <<cv.out, Lo>>,
            data |-> [i \in 0..(cv.out * Lo - 1) |->
                       LET g == (i \div Lo) \div opg
                       IN UNION { X.data[ic * L + (i % Lo) + j] :
                                    ic \in (g * ipg)..((g + 1) * ipg - 1),
                                    j \in 0..(cv.k - 1) }] ]

\* torch.reshape keeps the row-major storage and changes the shape.
ReshapeV(X, new) ==
  IF IsErr(Reshape(X.shape, new)) THEN ErrT ELSE [shape |-> new, data |-> X.data]

\* Line 62.
ODCM_reshape(X) == ReshapeV(X, <<X.shape[1] \div ncf, ncf, X.shape[2]>>)

\* X[c, f, t] of a 3-axis tensor, indices from 0.
At3(X, c, f, t) == X.data[(c * X.shape[2] + f) * X.shape[3] + t]

OdInit ==
  /\ od_m = ODCM_init(1, 1) /\ od_pc = "idle" /\ od_sig = <<0, 0>> /\ od_x = ErrT

\* odcm = ODCM(C, K); odcm(signal) on a [C, T] signal
OD_call ==
  /\ od_pc = "idle"
  /\ \E C \in 1..MaxC, K \in 1..MaxK, T \in 0..MaxT :
       /\ od_m' = ODCM_init(C, K)
       /\ od_sig' = <<C, T>>
       /\ od_x' = Signal(C, T)
  /\ od_pc' = "cvf1"

OdStep(here, r, next) ==
  /\ od_pc = here
  /\ od_x' = r
  /\ od_pc' = IF IsErr(r.shape) THEN "raised" ELSE next
  /\ UNCHANGED <<od_m, od_sig>>

OD_cvf1 == OdStep("cvf1", Conv1dV(od_m.cvf1, od_x), "cvf2")
OD_cvf2 == OdStep("cvf2", Conv1dV(od_m.cvf2, od_x), "cvf3")
OD_cvf3 == OdStep("cvf3", Conv1dV(od_m.cvf3, od_x), "reshape")
OD_reshape == OdStep("reshape", ODCM_reshape(od_x), "returned")

OdNext == OD_call \/ OD_cvf1 \/ OD_cvf2 \/ OD_cvf3 \/ OD_reshape

\* =========================================================================
\* The accumulation loop of one attention block, on values.  The intermediate
\* vector of sequence position p right after line 133 (score x value) is the
\* symbol sv_p; a value of the buffer imv[a, :, p] is an integer combination
\* of sv_0 .. sv_L, kept as its coefficient vector [q |-> coefficient of sv_q].
\* =========================================================================
VARIABLES
  ac_mod,   \* the module running the block: "rtm", "stm" or "ttm"
  ac_len,   \* size of the sequence axis of imv[a] (aggregate token included)
  ac_todo,  \* the indices `for subj in range(1, stop)` has yet to visit
  ac_imv,   \* imv[a] along the sequence axis
  ac_pc     \* "idle", "loop" or "done"

acVars == <<ac_mod, ac_len, ac_todo, ac_imv, ac_pc>>

\* range(lo, hi) as the sequence of indices visited.
range2(lo, hi) == [i \in 1..(hi - lo) |-> lo + i - 1]

\* imv[a] = einsum(score, value): position p holds sv_p.
ScoreTimesValue(len) == [p \in 0..(len - 1) |-> [q \in 0..(len - 1) |-> IF q = p THEN 1 ELSE 0]]

VAdd(u, v) == [q \in DOMAIN u |-> u[q] + v[q]]

\* imv[a, :, subj] = imv[a, :, subj] + imv[a, :, subj - 1]
AccumStep_mut(imv, subj) == [imv EXCEPT ![subj] = imv[subj - 1]]
AccumStep(imv, subj) == [imv EXCEPT ![subj] = VAdd(imv[subj], imv[subj - 1])]

AcInit ==
  /\ ac_mod = "none" /\ ac_len = 0 /\ ac_todo = <<>> /\ ac_imv = <<>> /\ ac_pc = "idle"

\* Lines 133-136 of a block of RTM built and run on outshape1.
AC_rtm ==
  /\ ac_pc = "idle"
  /\ \E c \in Configs :
       LET m == EEGformer_init(c)
           xt == RTM_transpose(m.outshape1) IN
       /\ ac_len' = xt[1] + 1
       /\ ac_todo' = range2(1, RTM_accum_stop(m.rtm, xt))
  /\ ac_mod' = "rtm" /\ ac_imv' = ScoreTimesValue(ac_len') /\ ac_pc' = "loop"

\* Lines 194-196 of a block of STM built and run on outshape2.
AC_stm ==
  /\ ac_pc = "idle"
  /\ \E c \in Configs :
       LET m == EEGformer_init(c)
           xt == STM_transpose(m.outshape2) IN
       /\ ac_len' = xt[1] + 1
       /\ ac_todo' = range2(1, STM_accum_stop(m.stm, xt))
  /\ ac_mod' = "stm" /\ ac_imv' = ScoreTimesValue(ac_len') /\ ac_pc' = "loop"

\* Lines 268-270 of a block of TTM.
AC_ttm ==
  /\ ac_pc = "idle"
  /\ \E c \in Configs :
       LET m == EEGformer_init(c) IN
       /\ ac_len' = m.ttm.avgf + 1
       /\ ac_todo' = range2(1, TTM_accum_stop(m.ttm))
  /\ ac_mod' = "ttm" /\ ac_imv' = ScoreTimesValue(ac_len') /\ ac_pc' = "loop"

\* One iteration of the accumulation loop.
AC_step ==
  /\ ac_pc = "loop" /\ ac_todo # <<>>
  /\ ac_imv' = AccumStep(ac_imv, Head(ac_todo))
  /\ ac_todo' = Tail(ac_todo)
  /\ UNCHANGED <<ac_mod, ac_len, ac_pc>>

\* The loop is exhausted.
AC_exit ==
  /\ ac_pc = "loop" /\ ac_todo = <<>>
  /\ ac_pc' = "done"
  /\ UNCHANGED <<ac_mod, ac_len, ac_todo, ac_imv>>

AcNext == AC_rtm \/ AC_stm \/ AC_ttm \/ AC_step \/ AC_exit

\* =========================================================================
\* The segment average of TTM.forward (lines 244-248) on float32 values.
\* A float32 value in [1, 2] is kept as its count n of units 2^-23 (one unit
\* in the last place of the binade [1, 2)), so 1.0 is 2^23; a running sum
\* n >= 2^24 must be a multiple of the coarser unit of its own binade.
\* =========================================================================
VARIABLES
  av_m,       \* the fields of TTM the loop reads: segNum, avgf (seg = segNum/avgf)
  av_c,       \* the constants: av_c[i+1] is the value of every element of segment i
  av_input,   \* input[j, s, c] along the time axis j (the same at every s, c)
  av_inputc,  \* inputc[i, s, c] along the segment axis i
  av_i,       \* the outer loop's index i
  av_todo,    \* the indices j the inner loop has yet to visit
  av_reads,   \* history: how often input[j] was added into inputc[i]
  av_pc       \* "idle", "loop" or "done"

avVars == <<av_m, av_c, av_input, av_inputc, av_i, av_todo, av_reads, av_pc>>

\* dtype = torch.float32: 24 significant bits.
F32_bits == 24
F32_one == 2 ^ (F32_bits - 1)

\* The float32 values the constants are drawn from: 1.0, 1.5 and
\* 1.5000002384185791 (= 1.5 + 2^-22).
FloatSamples == {F32_one, F32_one + F32_one \div 2, F32_one + F32_one \div 2 + 2}

\* Bits of n beyond the 24 a float32 keeps.
RECURSIVE ExcessBits(_)
ExcessBits(n) == IF n < 2 ^ F32_bits THEN 0 ELSE 1 + ExcessBits(n \div 2)

\* Round to nearest, ties to even, on the grid of multiples of step.
RoundToGrid(n, step) ==
  LET lo == (n \div step) * step
      rem == n - lo
  IN IF 2 * rem < step THEN lo
     ELSE IF 2 * rem > step THEN lo + step
     ELSE IF (lo \div step) % 2 = 0 THEN lo ELSE lo + step

\* The float32 nearest to n units.
F32_round(n) == RoundToGrid(n, 2 ^ ExcessBits(n))

\* float32 addition: the exact sum, rounded.
F32_add(a, b) == F32_round(a + b)

\* float32 division of s by the integer-valued d, for a quotient in [1, 2]:
\* the exact quotient, rounded to the nearest unit, ties to even.
F32_div(s, d) ==
  LET q == s \div d
      r == s % d
  IN IF 2 * r < d THEN q
     ELSE IF 2 * r > d THEN q + 1
     ELSE IF q % 2 = 0 THEN q ELSE q + 1

\* range(int(i * self.seg), int((i + 1) * self.seg))
SegRange_mut(m, i) == range2(SegBound(m, i), SegBound(m, i + 1) - 1)
SegRange(m, i) == range2(SegBound(m, i), SegBound(m, i + 1))

AvInit ==
  /\ av_m = [segNum |-> 0, avgf |-> 1] /\ av_c = <<>> /\ av_input = <<>>
  /\ av_inputc = <<>> /\ av_i = 0 /\ av_todo = <<>> /\ av_reads = <<>> /\ av_pc = "idle"

\* TTM.forward(x) on an input of time length T = segNum whose segment i is
\* constant c_i; inputc starts as zeros (line 244) and i = 0 enters the loop.
AV_call ==
  /\ av_pc = "idle"
  /\ \E T \in 1..MaxT, M \in 1..MaxM :
       /\ T % M = 0
       /\ \E c \in [1..M -> FloatSamples] :
            LET m == [segNum |-> T, avgf |-> M] IN
            /\ av_m' = m
            /\ av_c' = c
            /\ av_input' = [j \in 0..(T - 1) |-> c[(j \div (T \div M)) + 1]]
            /\ av_inputc' = [i \in 0..(M - 1) |-> 0]
            /\ av_reads' = [i \in 0..(M - 1) |-> [j \in 0..(T - 1) |-> 0]]
            /\ av_todo' = SegRange(m, 0)
  /\ av_i' = 0 /\ av_pc' = "loop"

\* Line 247: inputc[i] = inputc[i] + input[j]
AV_add ==
  /\ av_pc = "loop" /\ av_i < av_m.avgf /\ av_todo # <<>>
  /\ LET j == Head(av_todo) IN
       /\ av_inputc' = [av_inputc EXCEPT ![av_i] = F32_add(@, av_input[j])]
       /\ av_reads' = [av_reads EXCEPT ![av_i][j] = @ + 1]
  /\ av_todo' = Tail(av_todo)
  /\ UNCHANGED <<av_m, av_c, av_input, av_i, av_pc>>

\* Line 248: inputc[i] = inputc[i] / self.seg, then the next i.
AV_div ==
  /\ av_pc = "loop" /\ av_i < av_m.avgf /\ av_todo = <<>>
  /\ av_inputc' = [av_inputc EXCEPT ![av_i] = F32_div(@, av_m.segNum \div av_m.avgf)]
  /\ av_i' = av_i + 1
  /\ av_todo' = IF av_i + 1 < av_m.avgf THEN SegRange(av_m, av_i + 1) ELSE <<>>
  /\ UNCHANGED <<av_m, av_c, av_input, av_reads, av_pc>>

\* The outer loop is exhausted.
AV_exit ==
  /\ av_pc = "loop" /\ av_i = av_m.avgf
  /\ av_pc' = "done"
  /\ UNCHANGED <<av_m, av_c, av_input, av_inputc, av_i, av_todo, av_reads>>

AvNext == AV_call \/ AV_add \/ AV_div \/ AV_exit

\* =========================================================================
\* trunc_normal (lines 12-36) on fixed-point values, one tensor element
\* followed (every statement of the body is element-wise).
\* Tensor values and the arguments mean, std, a, b are in hundredths.  A
\* tensor element is a record: finite (inf = 0) with value v, or an infinity
\* (inf = 1 or -1), which is what erfinv_ gives at 1 and -1.  A finite v
\* stands for the floats that round to it; the floats that are exactly 1 and
\* -1 are told apart from their neighbours by one = 1 and one = -1.
\* The probabilities l and u and the bounds 2l - 1, 2u - 1 are in units of
\* 2^-26 (l rounded towards 0, u towards 1): the float32 bound 2l - 1 is
\* exactly -1 when l < 2^-26, and 2u - 1 is exactly 1 when 1 - u < 2^-26.
\* =========================================================================
VARIABLES
  tn_args,    \* the arguments mean, std, a, b of the running call
  tn_l,       \* l = norm_cdf((a - mean) / std)
  tn_u,       \* u = norm_cdf((b - mean) / std)
  tn_tensor,  \* the tensor, modified in place
  tn_stdout,  \* what the call has printed
  tn_pc       \* the statement the call is at

tnVars == <<tn_args, tn_l, tn_u, tn_tensor, tn_stdout, tn_pc>>

MaxAB == 2
MaxMean == 6
MaxStd == 2

Fin(v) == [inf |-> 0, v |-> v, one |-> 0]
\* inf (s = 1) and -inf (s = -1).
Inf(s) == [inf |-> s, v |-> 0, one |-> 0]

\* math.sqrt(2.) in units of 10^-8.
sqrt2 == 141421356

\* The standard normal distribution function at -6.0, -5.5, ..., 6.0 in units
\* of 2^-26; beyond these points it is 0 and 2^26.
PhiTab ==
  << 0, 1, 19, 228, 2125, 15611, 90590, 416723, 1526735, 4483355, 10647173,
     20705603, 33554432, 46403261, 56461691, 62625509, 65582129, 66692141,
     67018274, 67093253, 67106739, 67108636, 67108845, 67108863, 67108864 >>

\* norm_cdf(x): (1. + math.erf(x / math.sqrt(2.))) / 2., x in hundredths taken
\* to the nearest half (with std among .02, 1 and 2 the argument is one).
norm_cdf(xx) ==
  LET h == (xx + 25) \div 50
      hc == IF h < -12 THEN -12 ELSE IF h > 12 THEN 12 ELSE h
  IN PhiTab[hc + 13]

\* The condition of the warning, line 16.
MeanFarOutside(g) == (g.mean < g.a - 2 * g.std) \/ (g.mean > g.b + 2 * g.std)

Warning == "mean is more than 2 std from [a, b] in nn.init.trunc_normal"

\* tensor.uniform_(lo, hi), one element: any float of the interval, that is
\* any hundredth some value strictly inside (-1, 1) of the interval rounds
\* to, and exactly -1 or 1 where that is a bound (a build may or may not
\* return the upper bound).
uniform_(lo, hi) ==
  LET Hundredth(y) == (y * 25 + 2^23) \div 2^24
      One(s) == [inf |-> 0, v |-> 100 * s, one |-> s]
  IN (IF lo = 2^26 \/ hi = -(2^26) THEN {}
      ELSE {Fin(y) : y \in Hundredth(lo)..Hundredth(hi)})
     \cup (IF lo = -(2^26) THEN {One(-1)} ELSE {})
     \cup (IF hi = 2^26 THEN {One(1)} ELSE {})

\* tensor.erfinv_(), one element: infinite at -1 and 1; for the floats that
\* round to y hundredths, the values from erfinv(y - 1/2) to erfinv(y + 1/2),
\* erfinv being odd and increasing.  ErfinvTab is erfinv at (k - 1/2) / 100
\* for k = 1..100, in hundredths, and at the largest float32 below 1 (k = 101).
erfinv_(e) ==
  LET ErfinvTab ==
        << 0, 1, 2, 3, 4, 5, 6, 7, 8, 8, 9, 10, 11, 12, 13, 14, 15, 16, 17,
           17, 18, 19, 20, 21, 22, 23, 24, 25, 26, 27, 28, 29, 30, 31, 32,
           33, 34, 35, 36, 37, 38, 39, 40, 41, 42, 43, 44, 45, 46, 47, 48,
           49, 51, 52, 53, 54, 55, 56, 58, 59, 60, 61, 63, 64, 65, 67, 68,
           70, 71, 73, 74, 76, 77, 79, 80, 82, 84, 86, 88, 90, 92, 94, 96,
           98, 101, 103, 106, 108, 111, 115, 118, 122, 126, 130, 136, 142,
           149, 158, 172, 198, 383 >>
      k == IF e.v < 0 THEN 0 - e.v ELSE e.v
      lo == IF k = 0 THEN 0 - ErfinvTab[1] ELSE ErfinvTab[k]
      hi == ErfinvTab[k + 1]
  IN IF e.one # 0 THEN {Inf(e.one)}
     ELSE {Fin(IF e.v < 0 THEN 0 - v ELSE v) : v \in lo..hi}

\* erfinv at a bound of line 25 as uniform_ holds it, the float32 nearest to
\* 2 * norm_cdf(h / 2) - 1 for h = -11..11; in hundredths.  It is h / (2 *
\* sqrt(2)) but for the rounding of the bound, which shows from |h| = 10 on.
ErfinvAt(y) ==
  LET BoundTab == << -383, -383, -353, -318, -283, -247, -212, -177, -141,
                     -106, -71, -35, 0, 35, 71, 106, 141, 177, 212, 247, 283,
                     318, 353, 383, 383 >>
  IN BoundTab[CHOOSE k \in 1..25 : 2 * PhiTab[k] - 2^26 = y]

\* tensor.mul_(std * math.sqrt(2.)) in float32, one element; std in hundredths,
\* k the scalar in units of 10^-8.  The floats that round to v lie between
\* (v - 1/2) and (v + 1/2) hundredths and the product is monotone, so the
\* element can become every hundredth from the rounded product of one end to
\* that of the other; Rnd(n) is n * k / (2 * 10^8) rounded, within 32 bits.
mul_(e, std) ==
  LET k == std * (sqrt2 \div 100) + (std * (sqrt2 % 100)) \div 100
      k1 == k \div 10000
      k0 == k % 10000
      Rnd(n) == (n * k1 + 10000 + (n * k0) \div 10000) \div 20000
  IN IF e.inf # 0 THEN {e}
     ELSE {Fin(w) : w \in Rnd(2 * e.v - 1) .. Rnd(2 * e.v + 1)}

\* tensor.add_(mean) in float32, one element; mean a whole number, given in
\* hundredths.  The sum is exact while the grid of float32 around the sum is
\* as fine as the grid around the element; where it is coarser the sum is
\* rounded to the nearest float32 (ties to the even one), and a float next to
\* an edge of the hundredth v can land on the far side of the edge of v + mean.
\* Crosses(n, mh, incl): U = n / 200 is an edge, S = U + mh / 100, f the
\* largest float32 below U (or equal to U, when incl); whether float32(f +
\* mh / 100) reaches S (or exceeds it, when incl).  The lower end of v is the
\* mirror image of the upper end of -v.
add_(e, mean) ==
  LET RECURSIVE Pow2(_), PowMod2(_, _), ExpUp(_, _), ExpDown(_, _)
      Pow2(d) == IF d = 0 THEN 1 ELSE 2 * Pow2(d - 1)
      PowMod2(t, M) == IF t = 0 THEN 1 ELSE (2 * PowMod2(t - 1, M)) % M
      Abs(n) == IF n < 0 THEN 0 - n ELSE n
      \* a >= 200: the largest p with 200 * 2^p <= a
      ExpUp(a, p) == IF 200 * Pow2(p + 1) <= a THEN ExpUp(a, p + 1) ELSE p
      \* a < 200: the smallest d with a * 2^d >= 200
      ExpDown(a, d) == IF a * Pow2(d) < 200 THEN ExpDown(a, d + 1) ELSE d
      \* floor(log2(|n| / 200)), the float32 exponent of n / 200
      Exponent(n) == IF Abs(n) >= 200 THEN ExpUp(Abs(n), 0)
                     ELSE 0 - ExpDown(Abs(n), 1)
      Crosses(n, mh, incl) ==
        LET ns == n + 2 * mh
            tf == 23 - Exponent(n)
            tS == 23 - Exponent(ns)
            g == tf - tS
            \* U - f in units of 2^-tf / 200
            d0 == (n * PowMod2(tf, 200)) % 200
            dm == IF d0 # 0 \/ incl THEN d0 ELSE IF n = 25 THEN 100 ELSE 200
            \* S - Q in units of 2^-tS / 200, Q the float32 of that grid below S
            rS == ((ns * PowMod2(tS, 200)) % 200) * Pow2(g)
            qodd == (ns * PowMod2(tS, 400)) % 400 >= 200
            half == 100 * Pow2(g)
        IN IF g <= 0 THEN FALSE
           ELSE IF rS >= dm
             THEN rS - dm > half \/ (rS - dm = half /\ qodd)
             ELSE ~incl /\ rS = 0 /\ (dm < half \/ ~qodd)
      w == e.v + mean
      lo == IF Crosses(0 - (2 * e.v - 1), 0 - mean, TRUE) THEN w - 1 ELSE w
      hi == IF Crosses(2 * e.v + 1, mean, FALSE) THEN w + 1 ELSE w
  IN IF e.inf # 0 THEN {e} ELSE {Fin(u) : u \in lo..hi}

\* The tensors an element-wise operation can leave, images[i] being what it
\* can make of element i.
ElementWise(images) ==
  {t \in [DOMAIN images -> UNION {images[i] : i \in DOMAIN images}] :
     \A i \in DOMAIN images : t[i] \in images[i]}

\* tensor.clamp_(min=a, max=b), one element.
clamp_mut(e, a, b) == e
clamp_(e, a, b) ==
  IF e.inf = 1 THEN Fin(b)
  ELSE IF e.inf = -1 THEN Fin(a)
  ELSE IF e.v < a THEN Fin(a)
  ELSE IF e.v > b THEN Fin(b)
  ELSE e

\* Arguments of a call: a <= b and std > 0, std = .02 as the callers pass it
\* among them.
TruncArgs ==
  { g \in [ mean : {100 * k : k \in (-MaxMean)..MaxMean},
            std : {2} \cup {100 * k : k \in 1..MaxStd},
            a : {100 * k : k \in (-MaxAB)..MaxAB},
            b : {100 * k : k \in (-MaxAB)..MaxAB} ] : g.a <= g.b }

TnInit ==
  /\ tn_args = [mean |-> 0, std |-> 100, a |-> 0, b |-> 0]
  /\ tn_l = 0 /\ tn_u = 0 /\ tn_tensor = <<>> /\ tn_stdout = {} /\ tn_pc = "idle"

\* Lines 12-22: the call, on a tensor of zeros (lines 101-102), up to l and u.
TN_call ==
  /\ tn_pc = "idle"
  /\ \E g \in TruncArgs :
       /\ tn_args' = g
       /\ tn_tensor' = <<Fin(0)>>
       /\ tn_stdout' = IF MeanFarOutside(g) THEN {Warning} ELSE {}
       /\ tn_l' = norm_cdf(((g.a - g.mean) * 100) \div g.std)
       /\ tn_u' = norm_cdf(((g.b - g.mean) * 100) \div g.std)
  /\ tn_pc' = "uniform_"

\* Line 25: tensor.uniform_(2 * l - 1, 2 * u - 1)
TN_uniform ==
  /\ tn_pc = "uniform_"
  /\ tn_tensor' \in [DOMAIN tn_tensor ->
                       uniform_(2 * tn_l - 2^26, 2 * tn_u - 2^26)]
  /\ tn_pc' = "erfinv_"
  /\ UNCHANGED <<tn_args, tn_l, tn_u, tn_stdout>>

\* Line 28: tensor.erfinv_().  The element was drawn between the bounds of
\* line 25, so its image lies between theirs.
TN_erfinv ==
  /\ tn_pc = "erfinv_"
  /\ LET lo == 2 * tn_l - 2^26
         hi == 2 * tn_u - 2^26
         Image(e) == {r \in erfinv_(e) :
                        \/ r.inf # 0
                        \/ /\ lo = -(2^26) \/ r.v >= ErfinvAt(lo)
                           /\ hi = 2^26 \/ r.v <= ErfinvAt(hi)}
     IN tn_tensor' \in ElementWise([i \in DOMAIN tn_tensor |-> Image(tn_tensor[i])])
  /\ tn_pc' = "mul_"
  /\ UNCHANGED <<tn_args, tn_l, tn_u, tn_stdout>>

\* Line 31: tensor.mul_(std * math.sqrt(2.))
TN_mul ==
  /\ tn_pc = "mul_"
  /\ LET Image(e) == mul_(e, tn_args.std)
     IN tn_tensor' \in ElementWise([i \in DOMAIN tn_tensor |-> Image(tn_tensor[i])])
  /\ tn_pc' = "add_"
  /\ UNCHANGED <<tn_args, tn_l, tn_u, tn_stdout>>

\* Line 32: tensor.add_(mean)
TN_add ==
  /\ tn_pc = "add_"
  /\ LET Image(e) == add_(e, tn_args.mean)
     IN tn_tensor' \in ElementWise([i \in DOMAIN tn_tensor |-> Image(tn_tensor[i])])
  /\ tn_pc' = "clamp_"
  /\ UNCHANGED <<tn_args, tn_l, tn_u, tn_stdout>>

\* Lines 35-36: tensor.clamp_(min=a, max=b); return tensor
TN_clamp ==
  /\ tn_pc = "clamp_"
  /\ tn_tensor' = [i \in DOMAIN tn_tensor |->
                     clamp_(tn_tensor[i], tn_args.a, tn_args.b)]
  /\ tn_pc' = "returned"
  /\ UNCHANGED <<tn_args, tn_l, tn_u, tn_stdout>>

TnNext == TN_call \/ TN_uniform \/ TN_erfinv \/ TN_mul \/ TN_add \/ TN_clamp

\* =========================================================================
\* The parameter tensors of the components, by the names the source gives
\* them (nn.Conv1d, nn.Linear and nn.LayerNorm own a weight and a bias).
\* =========================================================================
Components == <<"odcm", "rtm", "stm", "ttm", "cnndecoder">>

\* RTM.__init__ lines 100-111 (STM 162-173, TTM 227-238).
AttnParameters ==
  { "weight", "bias", "cls", "Wqkv", "Wo",
    "lnorm.weight", "lnorm.bias", "lnormz.weight", "lnormz.bias",
    "mlp.fc1.weight", "mlp.fc1.bias", "mlp.fc2.weight", "mlp.fc2.bias" }

Parameters(component) ==
  CASE component = "odcm" ->
         { "cvf1.weight", "cvf1.bias", "cvf2.weight", "cvf2.bias",
           "cvf3.weight", "cvf3.bias" }
    [] component = "rtm" -> AttnParameters
    [] component = "stm" -> AttnParameters
    [] component = "ttm" ->
         AttnParameters \cup {"lnorm_extra.weight", "lnorm_extra.bias"}
    [] component = "cnndecoder" ->
         { "cvd1.weight", "cvd1.bias", "cvd2.weight", "cvd2.bias",
           "cvd3.weight", "cvd3.bias", "fc.weight", "fc.bias" }

AllParameters ==
  UNION { {<<Components[i], p>> : p \in Parameters(Components[i])} :
            i \in DOMAIN Components }

\* =========================================================================
\* What a forward call reads and writes.  The value of a tensor is the set
\* of the sources it was computed from: the input of a call, the parameters
\* (tagged with the values construction drew) and the random generator.
\* A cell of a local or buffer also records the call that wrote it.
\* =========================================================================
VARIABLES
  pu_tK,       \* num_blocks of the constructed model
  pu_params,   \* the current value (a tag) of every parameter tensor
  pu_params0,  \* history: the parameter values construction drew
  pu_rng,      \* the state of the random generator (number of tensors drawn)
  pu_rng0,     \* history: the generator's state as construction left it
  pu_frame,    \* heap: the locals and buffers of forward; stale: history,
               \* a cell was read that an earlier call (or none) had written
  pu_call,     \* the number of forward calls started
  pu_input,    \* the input of the running call
  pu_a,        \* the block loop's index a
  pu_hist,     \* history: the (input, output) pairs of the calls returned
  pu_pc

puVars == <<pu_tK, pu_params, pu_params0, pu_rng, pu_rng0, pu_frame, pu_call,
            pu_input, pu_a, pu_hist, pu_pc>>

MaxSeed == 1
MaxInputs == 2
MaxCalls == 3

\* Mlp.__init__: drop=0.
drop == 0

Locals == {"x", "inputc", "savespace", "qkvspace", "rsaspace", "imv"}
Cell(v, k) == [val |-> v, by |-> k]
Unbound == [a \in 0..(MaxBlocks - 1) |-> Cell({}, 0)]

\* name = torch.zeros(n, ...): a new tensor, written by call k.
torch_zeros_mut(st, name, n, k) == st
torch_zeros(st, name, n, k) ==
  [st EXCEPT !.heap[name] = [a \in 0..(n - 1) |-> Cell({}, k)]]

\* Call k reads name[a] for the a in idx.
Touch(st, name, idx, k) ==
  [st EXCEPT !.stale = @ \/ (\E a \in idx : st.heap[name][a].by # k)]
Val(st, name, a) == st.heap[name][a].val

\* name[a] = v, or name = v for a local (a = 0), by call k.
Assign(st, name, a, v, k) == [st EXCEPT !.heap[name][a] = Cell(v, k)]

\* The parameters names of a component, as sources.
ParamsOf(component, names) ==
  {<<component, n, pu_params[<<component, n>>]>> : n \in names}

\* nn.Dropout(p) in training mode: draws from the generator unless p = 0.
Dropout(v, p) == IF p > 0 THEN v \cup {<<"torch", "rng", pu_rng>>} ELSE v

Mlp_params == {"mlp.fc1.weight", "mlp.fc1.bias", "mlp.fc2.weight", "mlp.fc2.bias"}

\* Lines 114-123 (176-185; 243-259 with the segment average in front).
Attn_enter(m, st0, k) ==
  LET s1 == IF m # "ttm" THEN Touch(st0, "x", {0}, k)
            ELSE LET t1 == torch_zeros(st0, "inputc", 1, k)
                     t2 == Touch(Touch(t1, "inputc", {0}, k), "x", {0}, k)
                     t3 == Assign(t2, "inputc", 0,
                                  Val(t2, "inputc", 0) \cup Val(t2, "x", 0), k)
                     t4 == Touch(t3, "inputc", {0}, k)
                 IN Assign(t4, "x", 0, Val(t4, "inputc", 0), k)
      s2 == torch_zeros(s1, "savespace", 1, k)
      s3 == Assign(s2, "savespace", 0,
                   Val(s2, "x", 0) \cup ParamsOf(m, {"weight", "cls", "bias"}), k)
      s4 == torch_zeros(s3, "qkvspace", pu_tK, k)
      s5 == torch_zeros(s4, "rsaspace", pu_tK, k)
  IN torch_zeros(s5, "imv", pu_tK, k)

\* Lines 127-143 (188-203, 262-277): block a.
Attn_block(m, st0, a, k) ==
  LET s1 == Touch(st0, "savespace", {0}, k)
      s2 == Assign(s1, "qkvspace", a,
                   Val(s1, "savespace", 0)
                     \cup ParamsOf(m, {"Wqkv", "lnorm.weight", "lnorm.bias"}), k)
      s3 == Touch(s2, "qkvspace", {a}, k)
      s4 == Assign(s3, "rsaspace", a, Val(s3, "qkvspace", a), k)
      s5 == Touch(Touch(s4, "rsaspace", {a}, k), "qkvspace", {a}, k)
      s6 == Assign(s5, "imv", a,
                   Val(s5, "rsaspace", a) \cup Val(s5, "qkvspace", a), k)
      \* imv[a, :, subj] = imv[a, :, subj] + imv[a, :, subj - 1]
      s7 == Assign(Touch(s6, "imv", {a}, k), "imv", a, Val(s6, "imv", a), k)
      \* imv.clone() reads every block, [a] selects one
      s8 == Touch(s7, "imv", 0..(pu_tK - 1), k)
      s9 == Assign(s8, "savespace", 0,
                   Val(s8, "imv", a) \cup ParamsOf(m, {"Wo"})
                     \cup Val(s8, "savespace", 0), k)
  IN Assign(s9, "savespace", 0,
            Dropout(Val(s9, "savespace", 0)
                      \cup ParamsOf(m, {"lnormz.weight", "lnormz.bias"} \cup Mlp_params),
                    drop), k)

\* Line 145 (205; 279-280 with lnorm_extra).
Attn_return(m, st0, k) ==
  LET s1 == Touch(st0, "savespace", {0}, k)
  IN Assign(s1, "x", 0,
            Val(s1, "savespace", 0)
              \cup (IF m = "ttm"
                      THEN ParamsOf(m, {"lnorm_extra.weight", "lnorm_extra.bias"})
                      ELSE {}), k)

\* x = self.odcm(x) / self.cnndecoder(x): every parameter of the component.
Conv_forward(m, st0, k) ==
  LET s1 == Touch(st0, "x", {0}, k)
  IN Assign(s1, "x", 0, Val(s1, "x", 0) \cup ParamsOf(m, Parameters(m)), k)

PuInit ==
  /\ pu_tK = 0
  /\ pu_params = [p \in AllParameters |-> 0]
  /\ pu_params0 = [p \in AllParameters |-> 0]
  /\ pu_rng = 0 /\ pu_rng0 = 0
  /\ pu_frame = [heap |-> [n \in Locals |-> Unbound], stale |-> FALSE]
  /\ pu_call = 0 /\ pu_input = 0 /\ pu_a = 0 /\ pu_hist = {} /\ pu_pc = "new"

\* EEGformer.__init__: the parameters get the values the initialisers draw
\* from the generator (torch.randn, trunc_normal's uniform_, the resets of
\* nn.Conv1d and nn.Linear), one draw for each tensor; nn.LayerNorm sets its
\* weight to ones and its bias to zeros whatever the seed (value -1).
PU_construct ==
  /\ pu_pc = "new"
  /\ \E seed \in 0..MaxSeed, tK \in 1..MaxBlocks :
       LET LayerNorms == {"lnorm.weight", "lnorm.bias", "lnormz.weight",
                          "lnormz.bias", "lnorm_extra.weight", "lnorm_extra.bias"}
           drawn == {p \in AllParameters : p[2] \notin LayerNorms}
           values == [p \in AllParameters |-> IF p \in drawn THEN seed ELSE -1]
       IN /\ pu_params' = values
          /\ pu_params0' = values
          /\ pu_rng' = pu_rng + Cardinality(drawn)
          /\ pu_rng0' = pu_rng + Cardinality(drawn)
          /\ pu_tK' = tK
  /\ pu_pc' = "ready"
  /\ UNCHANGED <<pu_frame, pu_call, pu_input, pu_a, pu_hist>>

\* A step of forward that replaces the frame and moves on.
PU_step(at, st, next) ==
  /\ pu_pc = at
  /\ pu_frame' = st
  /\ pu_rng' = IF drop > 0 /\ at \in {"rtm_loop", "stm_loop", "ttm_loop"}
                 THEN pu_rng + 1 ELSE pu_rng
  /\ pu_pc' = next
  /\ UNCHANGED <<pu_tK, pu_params, pu_params0, pu_rng0, pu_call, pu_input, pu_hist>>

\* model.forward(x): binds the argument.
PU_forward ==
  /\ pu_pc = "ready" /\ pu_call < MaxCalls
  /\ \E i \in 1..MaxInputs :
       /\ pu_input' = i
       /\ pu_frame' = Assign(pu_frame, "x", 0, {<<"input", "x", i>>}, pu_call + 1)
  /\ pu_call' = pu_call + 1
  /\ pu_pc' = "odcm"
  /\ UNCHANGED <<pu_tK, pu_params, pu_params0, pu_rng, pu_rng0, pu_a, pu_hist>>

PU_odcm ==
  PU_step("odcm", Conv_forward("odcm", pu_frame, pu_call), "rtm") /\ UNCHANGED pu_a

PU_enter(m) ==
  PU_step(m, Attn_enter(m, pu_frame, pu_call), m \o "_loop") /\ pu_a' = 0

PU_loop(m) ==
  /\ pu_a < pu_tK
  /\ PU_step(m \o "_loop", Attn_block(m, pu_frame, pu_a, pu_call), m \o "_loop")
  /\ pu_a' = pu_a + 1

PU_return(m, next) ==
  /\ pu_a = pu_tK
  /\ PU_step(m \o "_loop", Attn_return(m, pu_frame, pu_call), next)
  /\ UNCHANGED pu_a

PU_rtm_enter == PU_enter("rtm")
PU_rtm_loop == PU_loop("rtm")
PU_rtm_return == PU_return("rtm", "stm")
PU_stm_enter == PU_enter("stm")
PU_stm_loop == PU_loop("stm")
PU_stm_return == PU_return("stm", "ttm")
PU_ttm_enter == PU_enter("ttm")
PU_ttm_loop == PU_loop("ttm")
PU_ttm_return == PU_return("ttm", "cnndecoder")

PU_cnndecoder ==
  PU_step("cnndecoder", Conv_forward("cnndecoder", pu_frame, pu_call), "softmax")
  /\ UNCHANGED pu_a

\* return torch.softmax(x, dim=1)
PU_softmax ==
  /\ pu_pc = "softmax"
  /\ pu_frame' = Touch(pu_frame, "x", {0}, pu_call)
  /\ pu_hist' = pu_hist \cup {[input |-> pu_input, out |-> Val(pu_frame, "x", 0)]}
  /\ pu_pc' = "ready"
  /\ UNCHANGED <<pu_tK, pu_params, pu_params0, pu_rng, pu_rng0, pu_call, pu_input, pu_a>>

PuNext ==
  \/ PU_construct \/ PU_forward \/ PU_odcm
  \/ PU_rtm_enter \/ PU_rtm_loop \/ PU_rtm_return
  \/ PU_stm_enter \/ PU_stm_loop \/ PU_stm_return
  \/ PU_ttm_enter \/ PU_ttm_loop \/ PU_ttm_return
  \/ PU_cnndecoder \/ PU_softmax

\* =========================================================================
\* eegloss (lines 345-352).  The regulariser wt is a sum of sa(t) =
\* sum(abs(t)) over parameter tensors t; it is kept as the number of times
\* each tensor's sa has been added, a linear form in the unknowns sa(t).
\* =========================================================================
VARIABLES
  lo_cfg,    \* the configuration of the constructed model
  lo_const,  \* the argument L1_reg_const
  lo_wt,     \* the local wt
  lo_ls,     \* the L1 term of the returned ls: const times the form wt
  lo_pc

loVars == <<lo_cfg, lo_const, lo_wt, lo_ls, lo_pc>>

MaxL1 == 2

\* The tensors each statement passes to self.sa, in the order written.
Summed346 == <<"fc.weight", "cvd1.weight", "cvd2.weight", "cvd3.weight">>
SummedAttn ==
  <<"mlp.fc1.weight", "mlp.fc2.weight", "lnorm.weight", "lnormz.weight",
    "Wo", "Wqkv", "weight">>
Summed350 == <<"cvf1.weight", "cvf2.weight", "cvf3.weight">>

NoTerms == [p \in AllParameters |-> 0]

\* wt + self.sa(component.name)
sa(wt, component, name) == [wt EXCEPT ![<<component, name>>] = @ + 1]

RECURSIVE SumOf(_, _, _)
SumOf(wt, component, names) ==
  IF names = <<>> THEN wt
  ELSE SumOf(sa(wt, component, Head(names)), component, Tail(names))

LoInit ==
  /\ lo_cfg = NoCfg /\ lo_const = 0 /\ lo_wt = NoTerms
  /\ lo_ls = [const |-> 0, wt |-> NoTerms] /\ lo_pc = "new"

\* A model is constructed and eegloss(xf, label, L1_reg_const) is called.
LO_call ==
  /\ lo_pc = "new"
  /\ \E c \in Configs, k \in 0..MaxL1 :
       /\ ~EEGformer_init(c).raised
       /\ lo_cfg' = c
       /\ lo_const' = k
  /\ lo_pc' = "346"
  /\ UNCHANGED <<lo_wt, lo_ls>>

LO_stmt(at, component, names, next) ==
  /\ lo_pc = at
  /\ lo_wt' = SumOf(IF at = "346" THEN NoTerms ELSE lo_wt, component, names)
  /\ lo_pc' = next
  /\ UNCHANGED <<lo_cfg, lo_const, lo_ls>>

\* Line 346: wt = ... the decoder.
LO_346 == LO_stmt("346", "cnndecoder", Summed346, "347")
\* Lines 347-350: wt += ...
LO_347 == LO_stmt("347", "ttm", SummedAttn, "348")
LO_348 == LO_stmt("348", "stm", SummedAttn, "349")
LO_349 == LO_stmt("349", "rtm", SummedAttn, "350")
LO_350 == LO_stmt("350", "odcm", Summed350, "352")

\* Lines 352-353: ls = torch.mean(ls) + L1_reg_const * wt
LO_352 ==
  /\ lo_pc = "352"
  /\ lo_ls' = [const |-> lo_const, wt |-> lo_wt]
  /\ lo_pc' = "returned"
  /\ UNCHANGED <<lo_cfg, lo_const, lo_wt>>

LoNext == LO_call \/ LO_346 \/ LO_347 \/ LO_348 \/ LO_349 \/ LO_350 \/ LO_352

\* =========================================================================
\* The forward pass of an attention component (RTM lines 116-145, STM
\* 178-205, TTM 252-280), statement by statement.  A tensor is the term
\* that computed it: [op, idx, args], idx the block index of a parameter
\* slice or qkv part (-1 where there is none).  Along the sequence axis the
\* buffer imv[a] is also kept as in the accumulation model: position p holds
\* a combination of the score x value vectors sv_0 .. sv_L.
\* =========================================================================
VARIABLES
  bl_m,     \* the component: name, tK, len (positions of the sequence axis,
            \* aggregate token included), stop (of `range(1, stop)`), and
            \* hA, Dh, M_size1 as __init__ set them
  bl_a,     \* the block loop's index a
  bl_z,     \* savespace
  bl_qkv,   \* qkvspace[a]
  bl_rsa,   \* rsaspace[a]
  bl_imv,   \* imv[a]
  bl_imvc,  \* imv[a] along the sequence axis, as coefficients of sv_0 .. sv_L
  bl_todo,  \* the indices `for subj in range(1, stop)` has yet to visit
  bl_zd,    \* for each position of savespace, the positions of the block's
            \* input it was computed from
  bl_log,   \* history: the statements executed, in order
  bl_ins,   \* history: the savespace each block read at its first statement
  bl_outs,  \* history: the savespace each block left
  bl_outd,  \* history: bl_zd as each block left it
  bl_pc     \* the statement the call is at

blVars == <<bl_m, bl_a, bl_z, bl_qkv, bl_rsa, bl_imv, bl_imvc, bl_todo, bl_zd,
            bl_log, bl_ins, bl_outs, bl_outd, bl_pc>>

Term(op, idx, args) == [op |-> op, idx |-> idx, args |-> args]
NoTerm == Term("none", -1, <<>>)

\* ... + savespace
Residual_mut(f, res) == f
Residual(f, res) == Term("add", -1, <<f, res>>)

\* for subj in range(1, stop)
AccumTargets_mut(stop) == range2(1, stop + 1)
AccumTargets(stop) == range2(1, stop)

BlInit ==
  /\ bl_m = [name |-> "none", tK |-> 0, len |-> 0, stop |-> 0,
             hA |-> 0, Dh |-> 0, M_size1 |-> 0]
  /\ bl_a = 0 /\ bl_z = NoTerm /\ bl_qkv = NoTerm /\ bl_rsa = NoTerm
  /\ bl_imv = NoTerm /\ bl_imvc = <<>> /\ bl_todo = <<>> /\ bl_zd = <<>>
  /\ bl_log = <<>> /\ bl_ins = <<>> /\ bl_outs = <<>> /\ bl_outd = <<>>
  /\ bl_pc = "idle"

\* forward(x) of the RTM, STM or TTM of a constructed model, on the shape the
\* model was built for.
BL_call ==
  /\ bl_pc = "idle"
  /\ \E c \in Configs :
       LET m == EEGformer_init(c)
           xr == RTM_transpose(m.outshape1)
           xs == STM_transpose(m.outshape2) IN
       bl_m' \in { [name |-> "rtm", tK |-> m.rtm.tK, len |-> xr[1] + 1,
                    stop |-> RTM_accum_stop(m.rtm, xr), hA |-> m.rtm.hA,
                    Dh |-> m.rtm.Dh, M_size1 |-> m.rtm.M_size1],
                   [name |-> "stm", tK |-> m.stm.tK, len |-> xs[1] + 1,
                    stop |-> STM_accum_stop(m.stm, xs), hA |-> m.stm.hA,
                    Dh |-> m.stm.Dh, M_size1 |-> m.stm.M_size1],
                   [name |-> "ttm", tK |-> m.ttm.tK, len |-> m.ttm.avgf + 1,
                    stop |-> TTM_accum_stop(m.ttm), hA |-> m.ttm.hA,
                    Dh |-> m.ttm.Dh, M_size1 |-> m.ttm.M_size1] }
  /\ bl_pc' = "project"
  /\ UNCHANGED <<bl_a, bl_z, bl_qkv, bl_rsa, bl_imv, bl_imvc, bl_todo, bl_zd,
                 bl_log, bl_ins, bl_outs, bl_outd>>

\* A statement that assigns savespace.
BL_assign(at, term, next) ==
  /\ bl_pc = at
  /\ bl_z' = term
  /\ bl_log' = Append(bl_log, at)
  /\ bl_pc' = next

\* Line 117: savespace = torch.einsum(..., self.weight, x)
BL_project ==
  /\ BL_assign("project", Term("einsum", -1, <<Term("weight", -1, <<>>), Term("x", -1, <<>>)>>), "cat")
  /\ UNCHANGED <<bl_m, bl_a, bl_qkv, bl_rsa, bl_imv, bl_imvc, bl_todo, bl_zd, bl_ins, bl_outs, bl_outd>>

\* Line 118: savespace = torch.cat((self.cls, savespace), ...)
BL_cat ==
  /\ BL_assign("cat", Term("cat", -1, <<Term("cls", -1, <<>>), bl_z>>), "bias")
  /\ UNCHANGED <<bl_m, bl_a, bl_qkv, bl_rsa, bl_imv, bl_imvc, bl_todo, bl_zd, bl_ins, bl_outs, bl_outd>>

\* Lines 119-126: savespace = torch.add(savespace, self.bias); a = 0
BL_bias ==
  /\ BL_assign("bias", Term("add", -1, <<bl_z, Term("bias", -1, <<>>)>>),
               IF bl_m.tK > 0 THEN "qkv" ELSE "return")
  /\ bl_a' = 0
  /\ UNCHANGED <<bl_m, bl_qkv, bl_rsa, bl_imv, bl_imvc, bl_todo, bl_zd, bl_ins, bl_outs, bl_outd>>

\* Line 127: qkvspace[a] = torch.einsum(..., self.Wqkv[a], self.lnorm(savespace))
BL_qkv ==
  /\ bl_pc = "qkv" /\ bl_a < bl_m.tK
  /\ bl_qkv' = Term("einsum", -1, <<Term("Wqkv", bl_a, <<>>), Term("lnorm", -1, <<bl_z>>)>>)
  /\ bl_ins' = Append(bl_ins, bl_z)
  /\ bl_log' = Append(bl_log, "qkv")
  /\ bl_pc' = "score"
  /\ UNCHANGED <<bl_m, bl_a, bl_z, bl_rsa, bl_imv, bl_imvc, bl_todo, bl_zd, bl_outs, bl_outd>>

\* Line 130: rsaspace[a] = einsum(qkvspace[a, 0] / sqrt(Dh), qkvspace[a, 1])
BL_score ==
  /\ bl_pc = "score"
  /\ bl_rsa' = Term("score", -1, <<Term("select", 0, <<bl_qkv>>), Term("select", 1, <<bl_qkv>>)>>)
  /\ bl_log' = Append(bl_log, "score")
  /\ bl_pc' = "imv"
  /\ UNCHANGED <<bl_m, bl_a, bl_z, bl_qkv, bl_imv, bl_imvc, bl_todo, bl_zd, bl_ins, bl_outs, bl_outd>>

\* Line 133: imv[a] = einsum(rsaspace[a], qkvspace[a, 2]), position by position.
BL_imv ==
  /\ bl_pc = "imv"
  /\ bl_imv' = Term("einsum", -1, <<bl_rsa, Term("select", 2, <<bl_qkv>>)>>)
  /\ bl_imvc' = ScoreTimesValue(bl_m.len)
  /\ bl_todo' = AccumTargets(bl_m.stop)
  /\ bl_log' = Append(bl_log, "imv")
  /\ bl_pc' = IF bl_todo' = <<>> THEN "attn" ELSE "accum"
  /\ UNCHANGED <<bl_m, bl_a, bl_z, bl_qkv, bl_rsa, bl_zd, bl_ins, bl_outs, bl_outd>>

\* Line 137: imv[a, :, subj] = imv[a, :, subj] + imv[a, :, subj - 1]; as an
\* expression imv[a] is the loop applied to what line 133 assigned.
BL_accum ==
  /\ bl_pc = "accum" /\ bl_todo # <<>>
  /\ bl_imv' = IF bl_imv.op = "accumulate" THEN bl_imv
               ELSE Term("accumulate", -1, <<bl_imv>>)
  /\ bl_imvc' = AccumStep(bl_imvc, Head(bl_todo))
  /\ bl_todo' = Tail(bl_todo)
  /\ bl_log' = Append(bl_log, "accum")
  /\ bl_pc' = IF bl_todo' = <<>> THEN "attn" ELSE "accum"
  /\ UNCHANGED <<bl_m, bl_a, bl_z, bl_qkv, bl_rsa, bl_zd, bl_ins, bl_outs, bl_outd>>

\* Line 140 (STM 200, TTM 274): imv.clone().reshape(tK, ..., M_size1) takes
\* the hA * Dh values each position of imv holds for M_size1 values.
Reshapes(m) == m.hA * m.Dh = m.M_size1

\* Line 140: savespace = einsum(self.Wo[a], imv.clone().reshape(...)[a]) + savespace
BL_attn ==
  /\ Reshapes(bl_m)
  /\ BL_assign("attn",
          Residual(Term("einsum", -1, <<Term("Wo", bl_a, <<>>), Term("reshape", -1, <<bl_imv>>)>>),
                   bl_z),
          "mlp")
  /\ bl_zd' = [p \in 0..(bl_m.len - 1) |->
                 {q \in 0..(bl_m.len - 1) : bl_imvc[p][q] # 0} \cup {p}]
  /\ UNCHANGED <<bl_m, bl_a, bl_qkv, bl_rsa, bl_imv, bl_imvc, bl_todo, bl_ins, bl_outs, bl_outd>>

\* Line 140, Dh = int(M_size1 / hA) with hA not a divisor of M_size1: the
\* reshape raises RuntimeError in the first block; savespace is not assigned
\* and forward does not return.
BL_raise ==
  /\ bl_pc = "attn" /\ ~Reshapes(bl_m)
  /\ bl_pc' = "raised"
  /\ UNCHANGED <<bl_m, bl_a, bl_z, bl_qkv, bl_rsa, bl_imv, bl_imvc, bl_todo,
                 bl_zd, bl_log, bl_ins, bl_outs, bl_outd>>

\* Line 143: savespace = self.mlp(self.lnormz(savespace)) + savespace, and the
\* step of `for a in range(self.tK)`.  LayerNorm and the MLP work position by
\* position, so the block leaves bl_zd as line 140 set it.  Where the loop
\* goes on, the slices qkvspace[a], rsaspace[a], imv[a] of the next a are the
\* zeros of lines 121-123, as they were on entry to block 0; where it ends, a
\* and the slices stay.
BL_mlp ==
  LET more == bl_a + 1 < bl_m.tK IN
  /\ BL_assign("mlp", Residual(Term("mlp", -1, <<Term("lnormz", -1, <<bl_z>>)>>), bl_z),
               IF more THEN "qkv" ELSE "return")
  /\ bl_outs' = Append(bl_outs, bl_z')
  /\ bl_outd' = Append(bl_outd, bl_zd)
  /\ bl_a' = IF more THEN bl_a + 1 ELSE bl_a
  /\ bl_qkv' = IF more THEN NoTerm ELSE bl_qkv
  /\ bl_rsa' = IF more THEN NoTerm ELSE bl_rsa
  /\ bl_imv' = IF more THEN NoTerm ELSE bl_imv
  /\ bl_imvc' = IF more THEN <<>> ELSE bl_imvc
  /\ bl_zd' = IF more THEN <<>> ELSE bl_zd
  /\ UNCHANGED <<bl_m, bl_todo, bl_ins>>

\* Line 145: return savespace (TTM, lines 279-280: through lnorm_extra).
BL_return ==
  /\ bl_pc = "return"
  /\ bl_z' = IF bl_m.name = "ttm" THEN Term("reshape", -1, <<Term("lnorm_extra", -1, <<bl_z>>)>>)
             ELSE bl_z
  /\ bl_pc' = "returned"
  /\ UNCHANGED <<bl_m, bl_a, bl_qkv, bl_rsa, bl_imv, bl_imvc, bl_todo, bl_zd,
                 bl_log, bl_ins, bl_outs, bl_outd>>

BlNext ==
  \/ BL_call \/ BL_project \/ BL_cat \/ BL_bias \/ BL_qkv \/ BL_score
  \/ BL_imv \/ BL_accum \/ BL_attn \/ BL_raise \/ BL_mlp \/ BL_return

\* =========================================================================
\* Specifications
\* =========================================================================
vars == <<pipeVars, odVars, acVars, avVars, tnVars, puVars, loVars, blVars>>

\* The pipeline: construction and forward calls.
Init == PipeInit /\ OdInit /\ AcInit /\ AvInit /\ TnInit /\ PuInit /\ LoInit /\ BlInit
Next == PipeNext /\ UNCHANGED <<odVars, acVars, avVars, tnVars, puVars, loVars, blVars>>
Spec == Init /\ [][Next]_vars

\* ODCM.forward on values.
NextODCM == OdNext /\ UNCHANGED <<pipeVars, acVars, avVars, tnVars, puVars, loVars, blVars>>
SpecODCM == Init /\ [][NextODCM]_vars

\* The accumulation loop of an attention block on values.
NextAccum == AcNext /\ UNCHANGED <<pipeVars, odVars, avVars, tnVars, puVars, loVars, blVars>>
SpecAccum == Init /\ [][NextAccum]_vars

\* The segment average of TTM on float32 values.
NextAverage == AvNext /\ UNCHANGED <<pipeVars, odVars, acVars, tnVars, puVars, loVars, blVars>>
SpecAverage == Init /\ [][NextAverage]_vars

\* trunc_normal.
NextTruncNormal == TnNext /\ UNCHANGED <<pipeVars, odVars, acVars, avVars, puVars, loVars, blVars>>
SpecTruncNormal == Init /\ [][NextTruncNormal]_vars

\* What forward reads and writes.
NextPure == PuNext /\ UNCHANGED <<pipeVars, odVars, acVars, avVars, tnVars, loVars, blVars>>
SpecPure == Init /\ [][NextPure]_vars

\* eegloss.
NextLoss == LoNext /\ UNCHANGED <<pipeVars, odVars, acVars, avVars, tnVars, puVars, blVars>>
SpecLoss == Init /\ [][NextLoss]_vars

\* The statements of an attention component's forward.
NextBlocks == BlNext /\ UNCHANGED <<pipeVars, odVars, acVars, avVars, tnVars, puVars, loVars>>
SpecBlocks == Init /\ [][NextBlocks]_vars

\* =========================================================================
\* Claims checked under Spec
\* =========================================================================
Constructed == pc \notin {"new", "ctor_raised"}
Tprime(c) == c.T - 3 * (c.kernel_size - 1)
Divides(D, n) == D % n = 0 /\ D \div n # 0
ValidConfig(c) ==
  /\ Divides(Tprime(c), c.num_heads_RTM)
  /\ Divides(Tprime(c), c.num_heads_STM)
  /\ Divides((c.input_channels + 1) * (ncf + 1), c.num_heads_TTM)
  /\ Divides(Tprime(c), c.num_submatrices)
Matching == xin = <<cfg.T, cfg.input_channels>>

\* C1 (as claimed): construction of the attention components succeeds if and
\* only if the configuration is valid; an invalid configuration yields no
\* component object.  The code prints ERROR n and goes on constructing.
C1_ConstructionIffValid ==
  pc # "new" => (Constructed <=> ValidConfig(cfg))

\* C3: for a valid configuration the example shapes derived at construction
\* are <<C,120,T'>>, <<C,121,T'>>, <<121,C+1,T'>>, <<M+1,C+1,121>>; they are
\* the shapes ODCM, RTM, STM and TTM return at run time; no operation of
\* forward meets a parameter of an incompatible shape; forward returns
\* <<1, num_cls>>.
C3_ShapesAgree ==
  (Constructed /\ ValidConfig(cfg)) =>
    /\ mdl.outshape1 = <<cfg.input_channels, ncf, Tprime(cfg)>>
    /\ mdl.outshape2 = <<cfg.input_channels, ncf + 1, Tprime(cfg)>>
    /\ mdl.outshape3 = <<ncf + 1, cfg.input_channels + 1, Tprime(cfg)>>
    /\ mdl.outshape4 = <<cfg.num_submatrices + 1, cfg.input_channels + 1, ncf + 1>>
    /\ Matching =>
         /\ pc # "raised"
         /\ pc = "rtm" => x = mdl.outshape1
         /\ pc = "stm" => x = mdl.outshape2
         /\ pc = "ttm" => x = mdl.outshape3
         /\ pc = "cnndecoder" => x = mdl.outshape4
         /\ pc = "done" => out = <<1, cfg.num_cls>>

C3_Witness ==
  /\ pc = "done" /\ ValidConfig(cfg) /\ Matching
  /\ cfg.num_heads_RTM = 2 /\ cfg.num_submatrices = 2 /\ cfg.num_blocks = 2
  /\ out = <<1, cfg.num_cls>>

\* C4: a forward call starts its stages in the order odcm, rtm, stm, ttm,
\* cnndecoder, softmax, each once, and inside rtm, stm and ttm the blocks
\* 0..num_blocks-1 in index order: what has run is always a prefix of that
\* sequence, and a call that returns has run exactly all of it.
ModuleTrace(name, tK) == <<<<name, -1>>>> \o [i \in 1..tK |-> <<name, i - 1>>]
ExpectedTrace(tK) ==
  <<<<"odcm", -1>>>> \o ModuleTrace("rtm", tK) \o ModuleTrace("stm", tK)
    \o ModuleTrace("ttm", tK) \o <<<<"cnndecoder", -1>>, <<"softmax", -1>>>>
IsPrefix(s, t) == Len(s) <= Len(t) /\ SubSeq(t, 1, Len(s)) = s
StageOf(p) ==
  CASE p = "rtm_loop" -> "rtm" [] p = "stm_loop" -> "stm" [] p = "ttm_loop" -> "ttm"
    [] OTHER -> p
C4_StagesInOrder ==
  Constructed =>
    /\ IsPrefix(trace, ExpectedTrace(cfg.num_blocks))
    /\ pc = "done" => trace = ExpectedTrace(cfg.num_blocks)
    \* the stage about to run is the one the order prescribes next
    /\ pc \in {"odcm", "rtm", "stm", "ttm", "cnndecoder", "softmax"} =>
         ExpectedTrace(cfg.num_blocks)[Len(trace) + 1] = <<pc, -1>>
    /\ (pc \in {"rtm_loop", "stm_loop", "ttm_loop"} /\ iter # <<>>) =>
         ExpectedTrace(cfg.num_blocks)[Len(trace) + 1] = <<StageOf(pc), Head(iter)>>

C4_Witness ==
  /\ pc = "done" /\ cfg.num_blocks = 2
  /\ trace = <<<<"odcm", -1>>, <<"rtm", -1>>, <<"rtm", 0>>, <<"rtm", 1>>,
               <<"stm", -1>>, <<"stm", 0>>, <<"stm", 1>>,
               <<"ttm", -1>>, <<"ttm", 0>>, <<"ttm", 1>>,
               <<"cnndecoder", -1>>, <<"softmax", -1>>>>

\* C7 (as claimed): in the scenario M = 4 divides T - 3*(K-1), so the
\* segment check of TTM passes.
C7_ScenarioDivisible ==
  (Constructed /\ cfg = Scenario) =>
    /\ Tprime(cfg) % cfg.num_submatrices = 0
    /\ "ERROR 3" \notin stdout

\* C7 (amended): in the scenario T - 3*(K-1) = 229 and 229 % 4 = 1, so the
\* segment check of TTM fails and ERROR 3 (and nothing else) is printed;
\* construction goes on, and forward on a [256, 19] signal still returns a
\* <<1, 2>> output.
C7_ScenarioAmended ==
  (Constructed /\ cfg = Scenario) =>
    /\ Tprime(cfg) = 229
    /\ Tprime(cfg) % cfg.num_submatrices = 1
    /\ stdout = {"ERROR 3"}
    /\ Matching => pc # "raised"
    /\ pc = "done" => out = <<1, 2>>

C7_Witness ==
  cfg = Scenario /\ xin = <<256, 19>> /\ pc = "done" /\ out = <<1, 2>>

\* =========================================================================
\* Claims checked under SpecODCM
\* =========================================================================
\* C2: for a [C, T] signal and kernel size K, ODCM.forward returns exactly
\* when T > 3*(K-1); the result has shape <<C, 120, T - 3*(K-1)>> and its
\* element [c, f, t] is computed from input channel c only (from its time
\* steps t .. t + 3*(K-1)); when T <= 3*(K-1) the call raises.
C2_ODCM ==
  LET C == od_sig[1]
      T == od_sig[2]
      K == od_m.cvf1.k
  IN /\ od_pc = "raised" => T <= 3 * (K - 1)
     /\ od_pc \in {"reshape", "returned"} => T > 3 * (K - 1)
     /\ od_pc = "returned" =>
          /\ od_x.shape = <<C, ncf, T - 3 * (K - 1)>>
          /\ \A c \in 0..(C - 1), f \in 0..(ncf - 1), t \in 0..(T - 3 * (K - 1) - 1) :
               At3(od_x, c, f, t) = { <<c, t + j>> : j \in 0..(3 * (K - 1)) }

C2_Witness ==
  /\ od_pc = "returned" /\ od_sig = <<2, 5>> /\ od_m.cvf1.k = 2
  /\ od_x.shape = <<2, ncf, 2>>
  /\ At3(od_x, 1, 7, 1) = {<<1, 1>>, <<1, 2>>, <<1, 3>>, <<1, 4>>}

C2_WitnessRaised == od_pc = "raised" /\ od_sig[2] = 3 /\ od_m.cvf1.k = 2

\* =========================================================================
\* Claims checked under SpecAccum
\* =========================================================================
\* sv_0 + ... + sv_p
PrefixSum(len, p) == [q \in 0..(len - 1) |-> IF q <= p THEN 1 ELSE 0]

\* C5: when the accumulation loop of a block of RTM, STM or TTM is over, with
\* L tokens after the aggregate token, every position p in 1..L-1 holds
\* sv_0 + ... + sv_p, position 0 still holds sv_0, and when L = 1 every
\* position still holds its own sv_p.
C5_PrefixSums ==
  ac_pc = "done" =>
    LET L == ac_len - 1 IN
    /\ ac_imv[0] = PrefixSum(ac_len, 0)
    /\ \A p \in 1..(L - 1) : ac_imv[p] = PrefixSum(ac_len, p)
    /\ L = 1 => ac_imv = ScoreTimesValue(ac_len)

C5_Witness ==
  /\ ac_pc = "done" /\ ac_mod = "rtm" /\ ac_len = ncf + 1
  /\ ac_imv[ncf - 1] = [q \in 0..ncf |-> IF q = ncf THEN 0 ELSE 1]

C5_WitnessSingle ==
  ac_pc = "done" /\ ac_mod = "stm" /\ ac_len = 2 /\ ac_imv = ScoreTimesValue(2)

\* =========================================================================
\* Claims checked under SpecAverage
\* =========================================================================
\* The segments the loops read are contiguous, of equal size segNum/avgf,
\* pairwise disjoint, and cover every time index exactly once.
SegmentsPartition ==
  LET T == av_m.segNum
      M == av_m.avgf
  IN \A i \in 0..(M - 1), j \in 0..(T - 1) :
       av_reads[i][j] = IF j \div (T \div M) = i THEN 1 ELSE 0

\* c + c + ... + c (k terms) summed in float32 from zero, left to right.
RECURSIVE RunningSum(_, _)
RunningSum(c, k) == IF k = 0 THEN 0 ELSE F32_add(RunningSum(c, k - 1), c)

\* Every partial sum c, 2c, ..., k*c is a float32.
ExactSums(c, k) == \A n \in 1..k : F32_round(n * c) = n * c

\* C6 (as claimed): with the time length divisible by M the segments are a
\* partition into M contiguous equal parts, and averaged token i equals c_i
\* exactly.
C6_MeanRoundTrip ==
  av_pc = "done" =>
    /\ SegmentsPartition
    /\ \A i \in 0..(av_m.avgf - 1) : av_inputc[i] = av_c[i + 1]

\* C6 (amended): the segments are such a partition; averaged token i is the
\* float32 quotient by seg of the float32 running sum of seg copies of c_i;
\* it equals c_i exactly whenever every partial sum c_i, 2*c_i, ..., seg*c_i
\* is exactly representable in float32.
C6_MeanAmended ==
  av_pc = "done" =>
    LET seg == av_m.segNum \div av_m.avgf IN
    /\ SegmentsPartition
    /\ \A i \in 0..(av_m.avgf - 1) :
         /\ av_inputc[i] = F32_div(RunningSum(av_c[i + 1], seg), seg)
         /\ ExactSums(av_c[i + 1], seg) => av_inputc[i] = av_c[i + 1]

\* Two segments of three: 1.5 averages to 1.5, the inexact 3 * c_1 does not.
C6_Witness ==
  /\ av_pc = "done" /\ av_m = [segNum |-> 6, avgf |-> 2]
  /\ av_c = <<F32_one + F32_one \div 2, F32_one + F32_one \div 2 + 2>>
  /\ av_inputc[0] = av_c[1]
  /\ av_inputc[1] = av_c[2] + 1

\* =========================================================================
\* Claims checked under SpecTruncNormal
\* =========================================================================
\* C8: after trunc_normal returns, every element of the tensor is a finite
\* value in [a, b]; when the mean is more than 2 std outside [a, b] the
\* warning has been printed and the call has returned all the same.
C8_TruncNormalInRange ==
  tn_pc = "returned" =>
    /\ \A i \in DOMAIN tn_tensor :
         /\ tn_tensor[i].inf = 0
         /\ tn_args.a <= tn_tensor[i].v /\ tn_tensor[i].v <= tn_args.b
    /\ MeanFarOutside(tn_args) <=> (Warning \in tn_stdout)

\* The mean four units below a: the warning is printed, the upper bound
\* 2u - 1 is exactly 1, the element drawn there is inf after erfinv_ and b
\* after the clamp (an element drawn below 1 ends below b).
C8_Witness ==
  /\ tn_pc = "returned"
  /\ tn_args = [mean |-> -600, std |-> 100, a |-> -200, b |-> 200]
  /\ Warning \in tn_stdout
  /\ tn_l = 2^26 - 2125 /\ tn_u = 2^26
  /\ tn_tensor = <<Fin(200)>>
\* =========================================================================
\* Claims checked under SpecPure
\* =========================================================================
ParamSources == {<<p[1], p[2], pu_params[p]>> : p \in AllParameters}

\* C9: forward calls leave every parameter as construction set it, draw
\* nothing from the random generator, never
\* read a cell that an earlier call wrote, return a value computed from the
\* call's own input and the parameters alone, and return the same value
\* for the same input whatever calls came in between.
C9_ForwardPure ==
  /\ pu_params = pu_params0
  /\ pu_rng = pu_rng0
  /\ ~pu_frame.stale
  /\ \A h \in pu_hist : h.out \subseteq {<<"input", "x", h.input>>} \cup ParamSources
  /\ \A h1, h2 \in pu_hist : h1.input = h2.input => h1.out = h2.out

\* Three calls have returned, the same input first and last with another in
\* between, and the output carries the input and every parameter.
C9_Witness ==
  /\ pu_pc = "ready" /\ pu_call = 3 /\ pu_input = 1
  /\ pu_tK = 2 /\ pu_rng = 41
  /\ pu_frame.heap["imv"][1].by = 3
  /\ pu_hist = { [input |-> 1, out |-> {<<"input", "x", 1>>} \cup ParamSources],
                 [input |-> 2, out |-> {<<"input", "x", 2>>} \cup ParamSources] }

\* =========================================================================
\* Claims checked under SpecLoss
\* =========================================================================
\* The weight tensors among the parameters: those the source names weight,
\* Wqkv or Wo (the rest are biases and the aggregate tokens cls).
WeightTensors ==
  { p \in AllParameters :
      p[2] \in { "weight", "Wqkv", "Wo", "lnorm.weight", "lnormz.weight",
                 "lnorm_extra.weight", "mlp.fc1.weight", "mlp.fc2.weight",
                 "cvf1.weight", "cvf2.weight", "cvf3.weight",
                 "cvd1.weight", "cvd2.weight", "cvd3.weight", "fc.weight" } }

\* C10 (as claimed): the L1 term of eegloss is L1_reg_const times the sum of
\* sa(t) over the weight tensors t of all components, each exactly once.
C10_L1CoversEveryWeight ==
  lo_pc = "returned" =>
    /\ lo_ls.const = lo_const
    /\ \A p \in AllParameters :
         lo_ls.wt[p] = IF p \in WeightTensors THEN 1 ELSE 0

\* What does hold: every weight tensor but ttm.lnorm_extra.weight is summed
\* exactly once, and nothing that is not a weight tensor is summed.
C10_AllButLnormExtra ==
  lo_pc = "returned" =>
    /\ lo_ls.const = lo_const
    /\ \A p \in AllParameters :
         lo_ls.wt[p] = IF p \in WeightTensors \ {<<"ttm", "lnorm_extra.weight">>}
                         THEN 1 ELSE 0

\* =========================================================================
\* Claims checked under SpecBlocks
\* =========================================================================
\* z as assembled: the projection of x, the aggregate token in front, the
\* bias added.
Assembled ==
  Term("add", -1,
       << Term("cat", -1,
               << Term("cls", -1, <<>>),
                  Term("einsum", -1, <<Term("weight", -1, <<>>), Term("x", -1, <<>>)>>) >>),
          Term("bias", -1, <<>>) >>)

\* What a term is computed from: its parameters and inputs, a LayerNorm
\* taken as one input.
RECURSIVE InputsOf(_)
InputsOf(t) ==
  IF t.op = "lnorm" \/ t.args = <<>> THEN {t}
  ELSE UNION {InputsOf(t.args[i]) : i \in DOMAIN t.args}

\* zout = z1 + MLP(LayerNorm(z1)) with z1 = zin + Wo[a] applied to heads
\* computed from Wqkv[a] and LayerNorm(zin).
TwoResidualSteps(zin, zout, a) ==
  /\ zout.op = "add" /\ Len(zout.args) = 2
  /\ LET z1 == zout.args[2] IN
       /\ zout.args[1] = Term("mlp", -1, <<Term("lnormz", -1, <<z1>>)>>)
       /\ z1.op = "add" /\ Len(z1.args) = 2
       /\ z1.args[2] = zin
       /\ LET f == z1.args[1] IN
            /\ f.op = "einsum" /\ Len(f.args) = 2
            /\ f.args[1] = Term("Wo", a, <<>>)
            /\ InputsOf(f.args[2]) = {Term("Wqkv", a, <<>>), Term("lnorm", -1, <<zin>>)}

\* C11: in the forward pass of RTM, STM and TTM the three assembly statements
\* run once each, first, and never again; block 0 reads the assembled z and
\* block a > 0 reads what block a-1 left; block a leaves
\* z'' = z' + MLP(LayerNorm(z')) with z' = z + Wo[a](heads), the heads computed
\* from Wqkv[a] and LayerNorm(z) and the residual adding z itself; a call
\* that has returned ran blocks 0..K-1, and a call whose head count does not
\* divide the feature size raises in block 0 before z is updated.
C11_BlocksResidual ==
  /\ \A i \in DOMAIN bl_log :
       (bl_log[i] \in {"project", "cat", "bias"}) <=> (i <= 3)
  /\ Len(bl_log) >= 3 => SubSeq(bl_log, 1, 3) = <<"project", "cat", "bias">>
  /\ Len(bl_ins) > 0 => bl_ins[1] = Assembled
  /\ \A a \in DOMAIN bl_ins : a > 1 => bl_ins[a] = bl_outs[a - 1]
  /\ \A a \in DOMAIN bl_outs : TwoResidualSteps(bl_ins[a], bl_outs[a], a - 1)
  /\ bl_pc = "returned" => Len(bl_outs) = bl_m.tK /\ Reshapes(bl_m)
  /\ bl_pc = "raised" => bl_a = 0 /\ bl_outs = <<>> /\ bl_z = Assembled

\* STM of the scenario has returned from its two blocks.
C11_Witness ==
  /\ bl_pc = "returned" /\ bl_m.name = "stm" /\ bl_m.len = 20 /\ bl_m.tK = 2
  /\ Len(bl_outs) = 2 /\ bl_ins[2] = bl_outs[1]
  /\ bl_outs[2].args[2].args[1].args[1] = Term("Wo", 1, <<>>)

\* C12: the sequence has positions 0..L and the accumulation loop targets
\* positions within 1..L-1 only; so in every block of RTM, STM and TTM
\* position L of imv[a] holds its own score x value vector sv_L throughout,
\* and position L of the block's output is computed from position L of the
\* block's input alone.
C12_LastPositionAlone ==
  LET L == bl_m.len - 1 IN
  /\ \A i \in DOMAIN bl_todo : 1 <= bl_todo[i] /\ bl_todo[i] <= L - 1
  /\ DOMAIN bl_imvc # {} =>
       /\ DOMAIN bl_imvc = 0..L
       /\ bl_imvc[L] = [q \in 0..L |-> IF q = L THEN 1 ELSE 0]
  /\ DOMAIN bl_zd # {} => bl_zd[L] = {L}
  /\ \A a \in DOMAIN bl_outd : bl_outd[a][L] = {L}

\* TTM with two submatrices (positions 0, 1, 2), first block, after line
\* 140: position 1 holds sv_0 + sv_1 and its output depends on positions 0
\* and 1, while position 2 holds sv_2 and depends on itself.
C12_Witness ==
  /\ bl_m.name = "ttm" /\ bl_m.len = 3 /\ bl_m.stop = 2 /\ bl_a = 0 /\ bl_pc = "mlp"
  /\ bl_imvc[1] = [q \in 0..2 |-> IF q = 2 THEN 0 ELSE 1]
  /\ bl_imvc[2] = [q \in 0..2 |-> IF q = 2 THEN 1 ELSE 0]
  /\ bl_zd[1] = {0, 1}
  /\ bl_zd[2] = {2}

====
